---- MODULE Spec2Model ----
(***************************************************************************)
(* A model of the normalisation layer of SwimScraper (SwimScraper.py):     *)
(* the event codec, the record flattener, the all-times fetch loop, the    *)
(* teams reference table, the display-time parser, the name, hometown and *)
(* season helpers, the fetch functions, and of the batch drivers           *)
(* (dump_*.py) that call them.                                             *)
(*                                                                         *)
(* Python values are modelled as tagged records (None / int / str), a      *)
(* Python str as a sequence of one-character strings, so that formatting,  *)
(* parsing and ordering are computed and not assumed.                      *)
(***************************************************************************)
EXTENDS Integers, Sequences, FiniteSets, TLC

VARIABLES
    \* --- pure-function harness: one call of a library function ---
    arg,          \* the argument of the call
    ret,          \* the value returned (or the exception raised)
    op,           \* "none" before the call, then the name of the function called
    \* --- getSwimmerAllTimes(swimmer_ID) ---
    swimmer_ID,   \* the argument
    fastest,      \* what profile_fastest_times answers for this swimmer
    pc,           \* "idle", "loop", "done", "raised"
    event_tokens, \* the list getSwimmerEventTokens returned
    idx,          \* position of the for-loop over event_tokens (next to fetch)
    all_rows,     \* the accumulated rows
    fetches,      \* log of per-event fetches: token, outcome, answer
    printed,      \* log of the error messages printed (token of each)
    df,           \* the returned DataFrame (its rows, in order)
    \* --- teams table ---
    csv,          \* the backing file of the teams table
    teams,        \* the module-global teams table
    tpc,          \* "ready", or "raised" when load_teams let an exception out
    tret,         \* result of the last getTeamID / getTeamName call
    \* --- batch drivers (the dump_*.py scripts) ---
    run           \* one run of a driver's main: its items, position and outputs

vars == <<arg, ret, op, swimmer_ID, fastest, pc, event_tokens, idx, all_rows,
          fetches, printed, df, csv, teams, tpc, tret, run>>

pureVars == <<arg, ret, op>>
atVars == <<swimmer_ID, fastest, pc, event_tokens, idx, all_rows, fetches, printed, df>>
teamVars == <<csv, teams, tpc, tret>>

(***************************************************************************)
(* Python values                                                           *)
(***************************************************************************)
PyNone == [t |-> "none", n |-> 0, s |-> <<>>]
PyInt(i) == [t |-> "int", n |-> i, s |-> <<>>]
PyStr(cs) == [t |-> "str", n |-> 0, s |-> cs]
\* a key that the dict does not have
Absent == [t |-> "absent", n |-> 0, s |-> <<>>]

\* dict.get(key): None when the key is missing
Get(rec, key) == IF rec[key].t = "absent" THEN PyNone ELSE rec[key]

\* bool(v), as used by `a or b`
Truthy(v) ==
    CASE v.t = "int" -> v.n # 0
      [] v.t = "str" -> v.s # <<>>
      [] OTHER -> FALSE

\* `a if a is not None else b` in the place of `a or b`
PyOrNoneOnly(a, b) == IF a.t = "none" THEN b ELSE a

\* a or b
PyOr(a, b) == IF Truthy(a) THEN a ELSE b

DigitChars == <<"0", "1", "2", "3", "4", "5", "6", "7", "8", "9">>

RECURSIVE NatToChars(_)
NatToChars(n) ==
    IF n < 10 THEN <<DigitChars[n + 1]>>
    ELSE NatToChars(n \div 10) \o <<DigitChars[(n % 10) + 1]>>

\* str(i) for an int
IntToChars(i) == IF i < 0 THEN <<"-">> \o NatToChars(0 - i) ELSE NatToChars(i)

\* str(v), which is also what an f-string writes for {v}
Str(v) ==
    CASE v.t = "int" -> IntToChars(v.n)
      [] v.t = "str" -> v.s
      [] OTHER -> <<"N", "o", "n", "e">>

\* the printable ASCII characters in code-point order, from 32 (space) on
\* (slot 96, the grave accent, holds a name: the character is never used)
Ascii ==
    <<" ", "!", "\"", "#", "$", "%", "&", "'", "(", ")", "*", "+", ",", "-", ".", "/",
      "0", "1", "2", "3", "4", "5", "6", "7", "8", "9", ":", ";", "<", "=", ">", "?",
      "@", "A", "B", "C", "D", "E", "F", "G", "H", "I", "J", "K", "L", "M", "N", "O",
      "P", "Q", "R", "S", "T", "U", "V", "W", "X", "Y", "Z", "[", "\\", "]", "^", "_",
      "grave", "a", "b", "c", "d", "e", "f", "g", "h", "i", "j", "k", "l", "m", "n", "o",
      "p", "q", "r", "s", "t", "u", "v", "w", "x", "y", "z", "{", "|", "}", "~">>

\* ord(c)
Ord(c) == 31 + (CHOOSE i \in 1..Len(Ascii) : Ascii[i] = c)

\* a < b for two str, by code points
RECURSIVE StrLess(_, _)
StrLess(a, b) ==
    IF b = <<>> THEN FALSE
    ELSE IF a = <<>> THEN TRUE
    ELSE IF Head(a) = Head(b) THEN StrLess(Tail(a), Tail(b))
    ELSE Ord(Head(a)) < Ord(Head(b))

Range(f) == {f[i] : i \in DOMAIN f}

\* c in s
Contains(cs, c) == \E i \in 1..Len(cs) : cs[i] = c

\* s.find(c) as a 1-based position; only used when c is in s
FirstIndex(cs, c) == CHOOSE i \in 1..Len(cs) : cs[i] = c /\ \A j \in 1..(i - 1) : cs[j] # c

\* s.split(sep) for a one-character separator
RECURSIVE Split(_, _)
Split(cs, sep) ==
    IF ~Contains(cs, sep) THEN <<cs>>
    ELSE LET i == FirstIndex(cs, sep)
         IN  <<SubSeq(cs, 1, i - 1)>> \o Split(SubSeq(cs, i + 1, Len(cs)), sep)

(***************************************************************************)
(* Event codec: record -> token, record -> label                           *)
(***************************************************************************)
STROKE_CODES ==
    <<<< <<"1">>, <<"F", "r", "e", "e">> >>,
      << <<"2">>, <<"B", "a", "c", "k">> >>,
      << <<"3">>, <<"B", "r", "e", "a", "s", "t">> >>,
      << <<"4">>, <<"F", "l", "y">> >>,
      << <<"5">>, <<"I", "M">> >> >>

\* _gender_code with the two codes exchanged
_gender_code_swapped(eventgender) ==
    IF eventgender = PyStr(<<"M">>) THEN 2
    ELSE IF eventgender = PyStr(<<"F">>) THEN 1
    ELSE 0

_gender_code(eventgender) ==
    IF eventgender = PyStr(<<"M">>) THEN 1
    ELSE IF eventgender = PyStr(<<"F">>) THEN 2
    ELSE 0

\* _stroke_name that looks the code up as it is given
_stroke_name_raw_key(code) ==
    LET key == Str(code)
        hit == {i \in 1..Len(STROKE_CODES) : code = PyStr(STROKE_CODES[i][1])}
    IN  IF hit = {} THEN key ELSE STROKE_CODES[CHOOSE i \in hit : TRUE][2]

\* STROKE_CODES.get(str(code), str(code))
_stroke_name(code) ==
    LET key == Str(code)
        hit == {i \in 1..Len(STROKE_CODES) : STROKE_CODES[i][1] = key}
    IN  IF hit = {} THEN key ELSE STROKE_CODES[CHOOSE i \in hit : TRUE][2]

_event_label_from_record(rec) ==
    LET dist == Get(rec, "eventdistance")
        course == Get(rec, "eventcourse")
        stroke == _stroke_name(Get(rec, "eventstroke"))
    IN  Str(dist) \o <<" ">> \o Str(course) \o <<" ">> \o stroke

_event_token_from_record(rec) ==
    LET gender_code == _gender_code(Get(rec, "eventgender"))
        distance == Get(rec, "eventdistance")
        course == Get(rec, "eventcourse")
        stroke_code == Get(rec, "eventstroke")
    IN  IntToChars(gender_code) \o <<"|">> \o Str(distance) \o <<"|">>
            \o Str(course) \o <<"|">> \o Str(stroke_code)

(***************************************************************************)
(* Record flattener                                                        *)
(***************************************************************************)
Keys ==
    {"eventgender", "eventdistance", "eventcourse", "eventstroke", "eventtime",
     "time", "dateofswim", "date_created", "meet_name", "name", "season_id",
     "heat", "lane", "place"}

\* the dict with no key at all
EmptyRec == [k \in Keys |-> Absent]

\* the row of getSwimmerAllTimes with the label taken from the record itself
AllTimesRowOwnLabel(sid, label, rec) ==
    [swimmer_id |-> sid,
     event_label |-> _event_label_from_record(rec),
     eventdistance |-> Get(rec, "eventdistance"),
     eventcourse |-> Get(rec, "eventcourse"),
     eventstroke_name |-> _stroke_name(Get(rec, "eventstroke")),
     eventgender |-> Get(rec, "eventgender"),
     eventtime |-> PyOr(Get(rec, "eventtime"), Get(rec, "time")),
     dateofswim |-> PyOr(Get(rec, "dateofswim"), Get(rec, "date_created")),
     meet_name |-> PyOr(Get(rec, "meet_name"), Get(rec, "name")),
     season_id |-> Get(rec, "season_id"),
     heat |-> Get(rec, "heat"),
     lane |-> Get(rec, "lane"),
     place |-> Get(rec, "place")]

\* one row of getSwimmerAllTimes, built from a record of times_by_event and
\* the label of the event token being fetched
AllTimesRow(sid, label, rec) ==
    [swimmer_id |-> sid,
     event_label |-> label,
     eventdistance |-> Get(rec, "eventdistance"),
     eventcourse |-> Get(rec, "eventcourse"),
     eventstroke_name |-> _stroke_name(Get(rec, "eventstroke")),
     eventgender |-> Get(rec, "eventgender"),
     eventtime |-> PyOr(Get(rec, "eventtime"), Get(rec, "time")),
     dateofswim |-> PyOr(Get(rec, "dateofswim"), Get(rec, "date_created")),
     meet_name |-> PyOr(Get(rec, "meet_name"), Get(rec, "name")),
     season_id |-> Get(rec, "season_id"),
     heat |-> Get(rec, "heat"),
     lane |-> Get(rec, "lane"),
     place |-> Get(rec, "place")]

\* one row of getSwimmerFastestTimesClean
FastestTimesRow(sid, rec) ==
    [swimmer_id |-> sid,
     event_label |-> _event_label_from_record(rec),
     eventdistance |-> Get(rec, "eventdistance"),
     eventcourse |-> Get(rec, "eventcourse"),
     eventstroke_name |-> _stroke_name(Get(rec, "eventstroke")),
     eventgender |-> Get(rec, "eventgender"),
     eventtime |-> PyOr(Get(rec, "eventtime"), Get(rec, "time")),
     dateofswim |-> PyOr(Get(rec, "dateofswim"), Get(rec, "date_created")),
     meet_name |-> PyOr(Get(rec, "meet_name"), Get(rec, "name")),
     season_id |-> Get(rec, "season_id")]

(***************************************************************************)
(* getSwimmerEventTokens / getSwimmerAllTimes                              *)
(***************************************************************************)
\* getSwimmerEventTokens without the `seen` test: one entry per record
getSwimmerEventTokensNoSeen(sid, fastestJson) ==
    [i \in 1..Len(fastestJson) |->
        [swimmer_id |-> sid,
         event_token |-> _event_token_from_record(fastestJson[i]),
         event_label |-> _event_label_from_record(fastestJson[i]),
         eventdistance |-> Get(fastestJson[i], "eventdistance"),
         eventstroke |-> Get(fastestJson[i], "eventstroke"),
         eventcourse |-> Get(fastestJson[i], "eventcourse"),
         eventgender |-> Get(fastestJson[i], "eventgender")]]

RECURSIVE TokensLoop(_, _, _, _)
TokensLoop(sid, recs, seen, tokens) ==
    IF recs = <<>> THEN tokens
    ELSE LET rec == Head(recs)
             token == _event_token_from_record(rec)
         IN  IF token \in seen
             THEN TokensLoop(sid, Tail(recs), seen, tokens)
             ELSE TokensLoop(sid, Tail(recs), seen \cup {token},
                      Append(tokens,
                          [swimmer_id |-> sid,
                           event_token |-> token,
                           event_label |-> _event_label_from_record(rec),
                           eventdistance |-> Get(rec, "eventdistance"),
                           eventstroke |-> Get(rec, "eventstroke"),
                           eventcourse |-> Get(rec, "eventcourse"),
                           eventgender |-> Get(rec, "eventgender")]))

getSwimmerEventTokens(sid, fastestJson) == TokensLoop(sid, fastestJson, {}, <<>>)

\* sort_values(["swimmer_id", "event_label", "dateofswim"], na_position="last"):
\* does row a sort strictly before row b
IsNull(v) == v.t = "none"

DateLess(a, b) ==
    IF IsNull(a) THEN FALSE
    ELSE IF IsNull(b) THEN TRUE
    ELSE StrLess(a.s, b.s)

RowLess(a, b) ==
    IF a.swimmer_id # b.swimmer_id THEN a.swimmer_id < b.swimmer_id
    ELSE IF a.event_label # b.event_label THEN StrLess(a.event_label, b.event_label)
    ELSE DateLess(a.dateofswim, b.dateofswim)

\* insert r behind every row that does not sort after it (the sort is stable)
RECURSIVE InsertRow(_, _)
InsertRow(sorted, r) ==
    IF sorted = <<>> THEN <<r>>
    ELSE IF RowLess(r, Head(sorted)) THEN <<r>> \o sorted
    ELSE <<Head(sorted)>> \o InsertRow(Tail(sorted), r)

RECURSIVE SortRows(_)
SortRows(rows) ==
    IF rows = <<>> THEN <<>>
    ELSE InsertRow(SortRows(SubSeq(rows, 1, Len(rows) - 1)), rows[Len(rows)])

\* the tail of getSwimmerAllTimes with the sort_values call left out
ReturnFrameUnsorted(rows) == rows

\* the tail of getSwimmerAllTimes: an empty frame, or the sorted rows
ReturnFrame(rows) == IF rows = <<>> THEN <<>> ELSE SortRows(rows)

(***************************************************************************)
(* The server's answers used to exercise getSwimmerAllTimes                *)
(***************************************************************************)
MaxFastest == 3

SwimmerIDs == {362091, 549377}

EventRec(gender, distance, course, stroke) ==
    [EmptyRec EXCEPT !["eventgender"] = gender, !["eventdistance"] = distance,
                     !["eventcourse"] = course, !["eventstroke"] = stroke]

\* profile_fastest_times records: the second has the token and label of the
\* first, the third the label of the first under another token
FastestRecs ==
    {EventRec(PyStr(<<"M">>), PyInt(50), PyStr(<<"Y">>), PyInt(1)),
     EventRec(PyStr(<<"M">>), PyStr(<<"5", "0">>), PyStr(<<"Y">>), PyStr(<<"1">>)),
     EventRec(PyStr(<<"F">>), PyInt(50), PyStr(<<"Y">>), PyInt(1)),
     EventRec(Absent, PyInt(100), PyStr(<<"Y">>), PyInt(2))}

SwimRec(date, created, time) ==
    [EventRec(PyStr(<<"M">>), PyInt(50), PyStr(<<"Y">>), PyInt(1))
        EXCEPT !["dateofswim"] = date, !["date_created"] = created,
               !["eventtime"] = time]

Swim24 == SwimRec(PyStr(<<"2", "4">>), Absent, PyStr(<<"2", "1", ".", "5">>))
Swim23 == SwimRec(Absent, PyStr(<<"2", "3">>), PyStr(<<"2", "2", ".", "0">>))
SwimNoDate == SwimRec(PyNone, Absent, PyStr(<<"D", "Q">>))

\* times_by_event answers
Responses == {<<>>, <<Swim24>>, <<Swim24, Swim23>>, <<SwimNoDate, Swim23>>}

SeqsUpTo(S, n) == UNION {[1..k -> S] : k \in 0..n}

PureIdle == arg = <<>> /\ ret = <<>> /\ op = "off"

AllTimesIdle ==
    /\ swimmer_ID = 0 /\ fastest = <<>> /\ pc = "off" /\ event_tokens = <<>>
    /\ idx = 0 /\ all_rows = <<>> /\ fetches = <<>> /\ printed = <<>> /\ df = <<>>

TeamsIdle == csv = <<>> /\ teams = <<>> /\ tpc = "off" /\ tret = <<>>

RunIdle == run = <<>>

InitAllTimes ==
    /\ swimmer_ID \in SwimmerIDs
    /\ fastest \in SeqsUpTo(FastestRecs, MaxFastest)
    /\ pc = "idle"
    /\ event_tokens = <<>>
    /\ idx = 0
    /\ all_rows = <<>>
    /\ fetches = <<>>
    /\ printed = <<>>
    /\ df = <<>>
    /\ PureIdle
    /\ TeamsIdle
    /\ RunIdle

\* getSwimmerAllTimes up to the first per-event fetch: the fastest-times fetch
\* succeeded and getSwimmerEventTokens returned
CallAllTimes ==
    /\ pc = "idle"
    /\ LET tokens == getSwimmerEventTokens(swimmer_ID, fastest)
       IN  /\ event_tokens' = tokens
           /\ idx' = 1
           /\ IF tokens = <<>>
              THEN pc' = "done" /\ df' = ReturnFrame(all_rows)
              ELSE pc' = "loop" /\ df' = df
    /\ UNCHANGED <<swimmer_ID, fastest, all_rows, fetches, printed>>
    /\ UNCHANGED pureVars /\ UNCHANGED teamVars /\ UNCHANGED run

\* getSwimmerProfileFastestTimes raised (raise_for_status): nothing catches it
CallAllTimesRaises ==
    /\ pc = "idle"
    /\ pc' = "raised"
    /\ UNCHANGED <<swimmer_ID, fastest, event_tokens, idx, all_rows, fetches, printed, df>>
    /\ UNCHANGED pureVars /\ UNCHANGED teamVars /\ UNCHANGED run

\* the end of one iteration of the for-loop: the next token, or, behind the
\* last one, the tail of the function
NextToken(rows) ==
    /\ idx' = idx + 1
    /\ IF idx = Len(event_tokens)
       THEN pc' = "done" /\ df' = ReturnFrame(rows)
       ELSE pc' = pc /\ df' = df

\* one iteration whose getSwimmerTimesByEventJSON returned event_times
FetchEventOk ==
    /\ pc = "loop"
    /\ \E event_times \in Responses :
         LET et == event_tokens[idx]
             rows == all_rows \o
                 [i \in 1..Len(event_times) |->
                     AllTimesRow(swimmer_ID, et.event_label, event_times[i])]
         IN  /\ fetches' = Append(fetches,
                     [token |-> et.event_token, ok |-> TRUE, json |-> event_times])
             /\ all_rows' = rows
             /\ NextToken(rows)
    /\ UNCHANGED <<swimmer_ID, fastest, event_tokens, printed>>
    /\ UNCHANGED pureVars /\ UNCHANGED teamVars /\ UNCHANGED run

\* one iteration whose getSwimmerTimesByEventJSON raised, with no try/except
\* around it: the exception leaves getSwimmerAllTimes
FetchEventFailUncaught ==
    /\ pc = "loop"
    /\ fetches' = Append(fetches,
           [token |-> event_tokens[idx].event_token, ok |-> FALSE, json |-> <<>>])
    /\ pc' = "raised"
    /\ UNCHANGED <<swimmer_ID, fastest, event_tokens, idx, all_rows, printed, df>>
    /\ UNCHANGED pureVars /\ UNCHANGED teamVars /\ UNCHANGED run

\* one iteration whose getSwimmerTimesByEventJSON raised: print and continue
FetchEventFail ==
    /\ pc = "loop"
    /\ LET et == event_tokens[idx]
       IN  /\ fetches' = Append(fetches,
                   [token |-> et.event_token, ok |-> FALSE, json |-> <<>>])
           /\ printed' = Append(printed, et.event_token)
    /\ NextToken(all_rows)
    /\ UNCHANGED <<swimmer_ID, fastest, event_tokens, all_rows>>
    /\ UNCHANGED pureVars /\ UNCHANGED teamVars /\ UNCHANGED run

NextAllTimes == CallAllTimes \/ CallAllTimesRaises \/ FetchEventOk \/ FetchEventFail

SpecAllTimes == InitAllTimes /\ [][NextAllTimes]_vars

(***************************************************************************)
(* Properties of getSwimmerAllTimes                                        *)
(***************************************************************************)
FetchedTokens == [i \in 1..Len(fetches) |-> fetches[i].token]

DerivedTokens == {_event_token_from_record(fastest[i]) : i \in 1..Len(fastest)}

NoRepeat(seq) == \A i, j \in 1..Len(seq) : seq[i] = seq[j] => i = j

\* C1: no token is ever fetched twice, and when getSwimmerAllTimes has
\* returned, the per-event fetches are exactly one per distinct token derived
\* from the fastest-times records.
C1_OneFetchPerToken ==
    /\ NoRepeat(FetchedTokens)
    /\ Range(FetchedTokens) \subseteq DerivedTokens
    /\ pc = "done" =>
          /\ Range(FetchedTokens) = DerivedTokens
          /\ Len(fetches) = Cardinality(DerivedTokens)

\* 3 records, 2 distinct tokens, 2 fetches; two of the records share a label
\* under different tokens and were both fetched
C1_Witness ==
    /\ pc = "done"
    /\ Len(fastest) = 3
    /\ Cardinality(DerivedTokens) = 2
    /\ Len(fetches) = 2
    /\ event_tokens[1].event_label = event_tokens[2].event_label

\* the rows the successful fetches of the log give, in fetch order
RowsOfFetch(i) ==
    IF fetches[i].ok
    THEN [k \in 1..Len(fetches[i].json) |->
             AllTimesRow(swimmer_ID, event_tokens[i].event_label, fetches[i].json[k])]
    ELSE <<>>

RECURSIVE RowsOfFetches(_)
RowsOfFetches(n) == IF n = 0 THEN <<>> ELSE RowsOfFetches(n - 1) \o RowsOfFetch(n)

Count(seq, x) == Cardinality({i \in 1..Len(seq) : seq[i] = x})

SameRows(a, b) ==
    /\ Len(a) = Len(b)
    /\ \A x \in Range(a) \cup Range(b) : Count(a, x) = Count(b, x)

FailedTokens == {fetches[i].token : i \in {k \in 1..Len(fetches) : ~fetches[k].ok}}

\* C2: a failed per-event fetch never ends the call with an exception; every
\* token is still fetched, in order; each failure is printed; the returned
\* rows are the rows of the fetches that succeeded.
C2_PartialResult ==
    /\ pc = "raised" => fetches = <<>>
    /\ pc \in {"loop", "done"} =>
          /\ Len(fetches) = idx - 1
          /\ \A i \in 1..Len(fetches) : fetches[i].token = event_tokens[i].event_token
          /\ Range(printed) = FailedTokens
          /\ Len(printed) = Cardinality(FailedTokens)
    /\ pc = "done" =>
          /\ Len(fetches) = Len(event_tokens)
          /\ SameRows(df, RowsOfFetches(Len(fetches)))

\* a fetch failed, a later one succeeded with rows, and the call returned them
C2_Witness ==
    /\ pc = "done"
    /\ \E i, j \in 1..Len(fetches) :
          i < j /\ ~fetches[i].ok /\ fetches[j].ok /\ fetches[j].json # <<>>
    /\ df # <<>>

StrLE(a, b) == a = b \/ StrLess(a, b)

\* C5: the returned rows are ascending by (swimmer_id, event_label,
\* dateofswim): labels in code-point order, and within one label every null
\* date behind every non-null date, the non-null dates ascending.
C5_SortedByLabelThenDate ==
    pc = "done" =>
        \A i, j \in 1..Len(df) :
            i < j =>
                /\ df[i].swimmer_id <= df[j].swimmer_id
                /\ df[i].swimmer_id = df[j].swimmer_id =>
                      StrLE(df[i].event_label, df[j].event_label)
                /\ (df[i].swimmer_id = df[j].swimmer_id
                        /\ df[i].event_label = df[j].event_label) =>
                      /\ IsNull(df[i].dateofswim) => IsNull(df[j].dateofswim)
                      /\ (~IsNull(df[i].dateofswim) /\ ~IsNull(df[j].dateofswim)) =>
                            StrLE(df[i].dateofswim.s, df[j].dateofswim.s)

\* the sort moved rows; a later date stands before an earlier one because its
\* label sorts first, and a null date stands behind a dated row of its label
C5_Witness ==
    /\ pc = "done"
    /\ df # all_rows
    /\ \E i, j \in 1..Len(df) :
          /\ i < j
          /\ df[i].event_label # df[j].event_label
          /\ ~IsNull(df[i].dateofswim) /\ ~IsNull(df[j].dateofswim)
          /\ StrLess(df[j].dateofswim.s, df[i].dateofswim.s)
    /\ \E i, j \in 1..Len(df) :
          /\ i < j
          /\ df[i].event_label = df[j].event_label
          /\ ~IsNull(df[i].dateofswim) /\ IsNull(df[j].dateofswim)

(***************************************************************************)
(* The event codec applied to one record                                   *)
(***************************************************************************)
Genders ==
    {Absent, PyNone, PyStr(<<"M">>), PyStr(<<"F">>), PyStr(<<"m">>), PyStr(<<"X">>),
     PyStr(<<>>), PyInt(1)}
Distances == {Absent, PyInt(50), PyStr(<<"5", "0">>), PyInt(1650), PyInt(0 - 1)}
Courses == {Absent, PyStr(<<"Y">>), PyStr(<<"L">>), PyStr(<<"y", "d">>)}
Strokes ==
    {Absent, PyNone, PyInt(9), PyStr(<<"F", "l", "y">>), PyStr(<<"0", "1">>)}
        \cup {PyInt(i) : i \in 0..6}
        \cup {PyStr(<<d>>) : d \in {"1", "2", "3", "4", "5"}}

InitCodec ==
    /\ arg \in {EventRec(g, d, c, k) :
                    g \in Genders, d \in Distances, c \in Courses, k \in Strokes}
    /\ ret = <<>>
    /\ op = "none"
    /\ AllTimesIdle
    /\ TeamsIdle
    /\ RunIdle

CallEventToken ==
    /\ op = "none"
    /\ op' = "_event_token_from_record"
    /\ ret' = _event_token_from_record(arg)
    /\ UNCHANGED arg
    /\ UNCHANGED atVars /\ UNCHANGED teamVars /\ UNCHANGED run

CallEventLabel ==
    /\ op = "none"
    /\ op' = "_event_label_from_record"
    /\ ret' = _event_label_from_record(arg)
    /\ UNCHANGED arg
    /\ UNCHANGED atVars /\ UNCHANGED teamVars /\ UNCHANGED run

\* _stroke_name(rec.get("eventstroke")), the call of _event_label_from_record
CallStrokeName ==
    /\ op = "none"
    /\ op' = "_stroke_name"
    /\ ret' = _stroke_name(Get(arg, "eventstroke"))
    /\ UNCHANGED arg
    /\ UNCHANGED atVars /\ UNCHANGED teamVars /\ UNCHANGED run

NextCodec == CallEventToken \/ CallEventLabel \/ CallStrokeName

SpecCodec == InitCodec /\ [][NextCodec]_vars

\* C4: the token has four fields joined by "|": 1 for gender "M", 2 for "F",
\* 0 for anything else or no gender, then the record's distance, course and
\* stroke as they are written, whatever they are.
C4_TokenFormat ==
    op = "_event_token_from_record" =>
        LET parts == Split(ret, "|")
            g == arg["eventgender"]
        IN  /\ Len(parts) = 4
            /\ parts[1] = (IF g.t = "str" /\ g.s = <<"M">> THEN <<"1">>
                           ELSE IF g.t = "str" /\ g.s = <<"F">> THEN <<"2">>
                           ELSE <<"0">>)
            /\ parts[2] = Str(Get(arg, "eventdistance"))
            /\ parts[3] = Str(Get(arg, "eventcourse"))
            /\ parts[4] = Str(Get(arg, "eventstroke"))

\* a female record whose course and stroke are in no table
C4_Witness ==
    /\ op = "_event_token_from_record"
    /\ arg["eventgender"] = PyStr(<<"F">>)
    /\ arg["eventcourse"] = PyStr(<<"y", "d">>)
    /\ arg["eventstroke"] = PyInt(9)
    /\ ret = <<"2", "|", "1", "6", "5", "0", "|", "y", "d", "|", "9">>

\* the five stroke names, by number
StrokeNames ==
    << <<"F", "r", "e", "e">>, <<"B", "a", "c", "k">>, <<"B", "r", "e", "a", "s", "t">>,
       <<"F", "l", "y">>, <<"I", "M">> >>

\* the name the stroke code c stands for: a name for 1..5, written as a
\* number or as one digit, and otherwise c as it is written
NameOfStroke(c) ==
    LET known == {n \in 1..5 : c = PyInt(n) \/ c = PyStr(<<DigitChars[n + 1]>>)}
    IN  IF known = {} THEN Str(c) ELSE StrokeNames[CHOOSE n \in known : TRUE]

\* C16: _stroke_name gives Free, Back, Breast, Fly, IM for the codes 1..5,
\* number or string, and any other code as it is written, "None" for a
\* missing one; the label of a record is its distance, its course and that
\* stroke name with one space between them.
C16_StrokeNameAndLabel ==
    /\ op = "_stroke_name" =>
          /\ ret = NameOfStroke(Get(arg, "eventstroke"))
          /\ arg["eventstroke"] = Absent => ret = <<"N", "o", "n", "e">>
    /\ op = "_event_label_from_record" =>
          ret = Str(Get(arg, "eventdistance")) \o <<" ">> \o Str(Get(arg, "eventcourse"))
                    \o <<" ">> \o NameOfStroke(Get(arg, "eventstroke"))

\* the record of 50 yards with stroke code 1 was labelled "50 Y Free"
C16_Witness ==
    /\ op = "_event_label_from_record"
    /\ arg["eventdistance"] = PyInt(50)
    /\ arg["eventcourse"] = PyStr(<<"Y">>)
    /\ arg["eventstroke"] = PyInt(1)
    /\ ret = <<"5", "0", " ", "Y", " ", "F", "r", "e", "e">>

(***************************************************************************)
(* The flattener applied to one record                                     *)
(***************************************************************************)
SampleLabel == <<"5", "0", " ", "Y", " ", "F", "r", "e", "e">>

Times == {Absent, PyNone, PyStr(<<>>), PyInt(0), PyStr(<<"2", "1", ".", "5">>)}
AltTimes == {Absent, PyStr(<<"2", "2", ".", "0">>)}
Dates == {Absent, PyNone, PyStr(<<>>), PyStr(<<"2", "4">>)}
AltDates == {Absent, PyStr(<<"2", "3">>)}
Meets == {Absent, PyStr(<<>>), PyStr(<<"N", "C", "A", "A">>)}
AltMeets == {Absent, PyStr(<<"D", "u", "a", "l">>)}

InitFlat ==
    /\ arg \in {[EventRec(PyStr(<<"M">>), PyInt(50), PyStr(<<"Y">>), PyInt(1))
                    EXCEPT !["eventtime"] = t, !["time"] = at, !["dateofswim"] = d,
                           !["date_created"] = ad, !["meet_name"] = m, !["name"] = am] :
                    t \in Times, at \in AltTimes, d \in Dates, ad \in AltDates,
                    m \in Meets, am \in AltMeets}
    /\ ret = <<>>
    /\ op = "none"
    /\ AllTimesIdle
    /\ TeamsIdle
    /\ RunIdle

\* the row getSwimmerFastestTimesClean appends for the record
CallFastestTimesRow ==
    /\ op = "none"
    /\ op' = "getSwimmerFastestTimesClean"
    /\ \E sid \in SwimmerIDs : ret' = FastestTimesRow(sid, arg)
    /\ UNCHANGED arg
    /\ UNCHANGED atVars /\ UNCHANGED teamVars /\ UNCHANGED run

\* the row getSwimmerAllTimes appends for the record
CallAllTimesRow ==
    /\ op = "none"
    /\ op' = "getSwimmerAllTimes"
    /\ \E sid \in SwimmerIDs : ret' = AllTimesRow(sid, SampleLabel, arg)
    /\ UNCHANGED arg
    /\ UNCHANGED atVars /\ UNCHANGED teamVars /\ UNCHANGED run

NextFlat == CallFastestTimesRow \/ CallAllTimesRow

SpecFlat == InitFlat /\ [][NextFlat]_vars

Flattened == op \in {"getSwimmerFastestTimesClean", "getSwimmerAllTimes"}

Present(key) == arg[key].t # "absent"

\* a value that `or` keeps: not null, not the empty string, not zero
Usable(key) ==
    /\ Present(key)
    /\ arg[key].t # "none"
    /\ ~(arg[key].t = "str" /\ arg[key].s = <<>>)
    /\ ~(arg[key].t = "int" /\ arg[key].n = 0)

\* C6 as stated: the primary key's value is the output whenever the key is
\* present, the alternate key's value only when the primary key is absent.
C6_PrimaryWheneverPresent ==
    Flattened =>
        /\ ret.eventtime = (IF Present("eventtime") THEN arg["eventtime"] ELSE Get(arg, "time"))
        /\ ret.dateofswim =
              (IF Present("dateofswim") THEN arg["dateofswim"] ELSE Get(arg, "date_created"))
        /\ ret.meet_name = (IF Present("meet_name") THEN arg["meet_name"] ELSE Get(arg, "name"))

\* C6, amended: the primary key's value is the output whenever it is present
\* and not null, empty or zero; otherwise the alternate key's value is, and
\* null when the alternate key is missing.
C6_PrimaryWheneverUsable ==
    Flattened =>
        /\ ret.eventtime = (IF Usable("eventtime") THEN arg["eventtime"] ELSE Get(arg, "time"))
        /\ ret.dateofswim =
              (IF Usable("dateofswim") THEN arg["dateofswim"] ELSE Get(arg, "date_created"))
        /\ ret.meet_name = (IF Usable("meet_name") THEN arg["meet_name"] ELSE Get(arg, "name"))
        /\ (~Present("eventtime") /\ ~Present("time")) => ret.eventtime = PyNone
        /\ (~Present("dateofswim") /\ ~Present("date_created")) => ret.dateofswim = PyNone
        /\ (~Present("meet_name") /\ ~Present("name")) => ret.meet_name = PyNone

\* an all-times row: an empty eventtime replaced by time, a dateofswim kept
\* although date_created is there, and no meet name under either key
C6_Witness ==
    /\ op = "getSwimmerAllTimes"
    /\ arg["eventtime"] = PyStr(<<>>) /\ Present("time") /\ ret.eventtime = arg["time"]
    /\ Usable("dateofswim") /\ Present("date_created") /\ ret.dateofswim = arg["dateofswim"]
    /\ ~Present("meet_name") /\ ~Present("name") /\ ret.meet_name = PyNone

(***************************************************************************)
(* The events table, getEventID, getEventName                              *)
(***************************************************************************)
\* the dict `events`, as its (key, value) pairs in insertion order
events ==
    <<
      <<<<"2", "5", " ", "Y", " ", "F", "r", "e", "e">>,
          PyStr(<<"1", "2", "5", "Y">>)>>,
      <<<<"2", "5", " ", "Y", " ", "B", "a", "c", "k">>,
          PyStr(<<"2", "2", "5", " ", "Y">>)>>,
      <<<<"2", "5", " ", "Y", " ", "B", "r", "e", "a", "s", "t">>,
          PyStr(<<"3", "2", "5", "Y">>)>>,
      <<<<"2", "5", " ", "Y", " ", "F", "l", "y">>,
          PyStr(<<"4", "2", "5", "Y">>)>>,
      <<<<"5", "0", " ", "Y", " ", "F", "r", "e", "e">>,
          PyStr(<<"1", "5", "0", "Y">>)>>,
      <<<<"7", "5", " ", "Y", " ", "F", "r", "e", "e">>,
          PyStr(<<"1", "7", "5", "Y">>)>>,
      <<<<"1", "0", "0", " ", "Y", " ", "F", "r", "e", "e">>,
          PyStr(<<"1", "1", "0", "0", "Y">>)>>,
      <<<<"1", "2", "5", " ", "Y", " ", "F", "r", "e", "e">>,
          PyStr(<<"1", "1", "2", "5", "Y">>)>>,
      <<<<"2", "0", "0", " ", "Y", " ", "F", "r", "e", "e">>,
          PyStr(<<"1", "2", "0", "0", "Y">>)>>,
      <<<<"4", "0", "0", " ", "Y", " ", "F", "r", "e", "e">>,
          PyStr(<<"1", "4", "0", "0", "Y">>)>>,
      <<<<"5", "0", "0", " ", "Y", " ", "F", "r", "e", "e">>,
          PyStr(<<"1", "5", "0", "0", "Y">>)>>,
      <<<<"8", "0", "0", " ", "Y", " ", "F", "r", "e", "e">>,
          PyStr(<<"1", "8", "0", "0", "Y">>)>>,
      <<<<"1", "0", "0", "0", " ", "Y", " ", "F", "r", "e", "e">>,
          PyStr(<<"1", "1", "0", "0", "0", "Y">>)>>,
      <<<<"1", "5", "0", "0", " ", "Y", " ", "F", "r", "e", "e">>,
          PyStr(<<"1", "1", "5", "0", "0", "Y">>)>>,
      <<<<"1", "6", "5", "0", " ", "Y", " ", "F", "r", "e", "e">>,
          PyStr(<<"1", "1", "6", "5", "0", "Y">>)>>,
      <<<<"5", "0", " ", "Y", " ", "B", "a", "c", "k">>,
          PyStr(<<"2", "5", "0", "Y">>)>>,
      <<<<"1", "0", "0", " ", "Y", " ", "B", "a", "c", "k">>,
          PyStr(<<"2", "1", "0", "0", "Y">>)>>,
      <<<<"2", "0", "0", " ", "Y", " ", "B", "a", "c", "k">>,
          PyStr(<<"2", "2", "0", "0", "Y">>)>>,
      <<<<"5", "0", " ", "Y", " ", "B", "r", "e", "a", "s", "t">>,
          PyStr(<<"3", "5", "0", "Y">>)>>,
      <<<<"1", "0", "0", " ", "Y", " ", "B", "r", "e", "a", "s", "t">>,
          PyStr(<<"3", "1", "0", "0", "Y">>)>>,
      <<<<"2", "0", "0", " ", "Y", " ", "B", "r", "e", "a", "s", "t">>,
          PyStr(<<"3", "2", "0", "0", "Y">>)>>,
      <<<<"5", "0", " ", "Y", " ", "F", "l", "y">>,
          PyStr(<<"4", "5", "0", "Y">>)>>,
      <<<<"1", "0", "0", " ", "Y", " ", "F", "l", "y">>,
          PyStr(<<"4", "1", "0", "0", "Y">>)>>,
      <<<<"2", "0", "0", " ", "Y", " ", "F", "l", "y">>,
          PyStr(<<"4", "2", "0", "0", "Y">>)>>,
      <<<<"1", "0", "0", " ", "Y", " ", "I", "M">>,
          PyStr(<<"5", "1", "0", "0", "Y">>)>>,
      <<<<"2", "0", "0", " ", "Y", " ", "I", "M">>,
          PyStr(<<"5", "2", "0", "0", "Y">>)>>,
      <<<<"4", "0", "0", " ", "Y", " ", "I", "M">>,
          PyStr(<<"5", "4", "0", "0", "Y">>)>>,
      <<<<"2", "0", "0", " ", "F", "r", "e", "e", " ", "R", "e", "l", "a", "y">>,
          PyInt(6200)>>,
      <<<<"4", "0", "0", " ", "F", "r", "e", "e", " ", "R", "e", "l", "a", "y">>,
          PyInt(6400)>>,
      <<<<"8", "0", "0", " ", "F", "r", "e", "e", " ", "R", "e", "l", "a", "y">>,
          PyInt(6800)>>,
      <<<<"2", "0", "0", " ", "M", "e", "d", "l", "e", "y", " ", "R", "e", "l", "a", "y">>,
          PyInt(7200)>>,
      <<<<"4", "0", "0", " ", "M", "e", "d", "l", "e", "y", " ", "R", "e", "l", "a", "y">>,
          PyInt(7400)>>,
      <<<<"1", " ", "M", " ", "D", "i", "v", "i", "n", "g">>,
          PyStr(<<"H", "1">>)>>,
      <<<<"1", " ", "M", " ", "D", "i", "v", "i", "n", "g", " ", "(", "6", " ", "d", "i", "v", "e", "s", ")">>,
          PyStr(<<"H", "1", "6">>)>>,
      <<<<"3", " ", "M", " ", "D", "i", "v", "i", "n", "g", " ">>,
          PyStr(<<"H", "3">>)>>,
      <<<<"3", " ", "M", " ", "D", "i", "v", "i", "n", "g", " ", "(", "6", " ", "d", "i", "v", "e", "s", ")">>,
          PyStr(<<"H", "3", "6">>)>>,
      <<<<"7", "M", " ", "D", "i", "v", "i", "n", "g">>,
          PyStr(<<"H", "7", "5">>)>>,
      <<<<"7", "M", " ", "D", "i", "v", "i", "n", "g", " ", "(", "5", " ", "d", "i", "v", "e", "s", ")">>,
          PyStr(<<"H", "7", "5", "Y">>)>>,
      <<<<"P", "l", "a", "t", "f", "o", "r", "m", " ", "D", "i", "v", "i", "n", "g">>,
          PyStr(<<"H", "2">>)>>,
      <<<<"5", "0", " ", "I", "n", "d", "i", "v", "i", "d", "u", "a", "l">>,
          PyStr(<<"H", "5", "0">>)>>,
      <<<<"1", "0", "0", " ", "I", "n", "d", "i", "v", "i", "d", "u", "a", "l">>,
          PyStr(<<"H", "1", "0", "0">>)>>,
      <<<<"2", "0", "0", " ", "I", "n", "d", "i", "v", "i", "d", "u", "a", "l">>,
          PyStr(<<"H", "2", "0", "0">>)>>,
      <<<<"2", "5", " ", "S", " ", "F", "r", "e", "e">>,
          PyStr(<<"1", "2", "5", "S">>)>>,
      <<<<"2", "5", " ", "S", " ", "B", "a", "c", "k">>,
          PyStr(<<"2", "2", "5", " ", "S">>)>>,
      <<<<"2", "5", " ", "S", " ", "B", "r", "e", "a", "s", "t">>,
          PyStr(<<"3", "2", "5", "S">>)>>,
      <<<<"2", "5", " ", "S", " ", "F", "l", "y">>,
          PyStr(<<"4", "2", "5", "S">>)>>,
      <<<<"5", "0", " ", "S", " ", "F", "r", "e", "e">>,
          PyStr(<<"1", "5", "0", "S">>)>>,
      <<<<"7", "5", " ", "S", " ", "F", "r", "e", "e">>,
          PyStr(<<"1", "7", "5", "S">>)>>,
      <<<<"1", "0", "0", " ", "S", " ", "F", "r", "e", "e">>,
          PyStr(<<"1", "1", "0", "0", "S">>)>>,
      <<<<"1", "2", "5", " ", "S", " ", "F", "r", "e", "e">>,
          PyStr(<<"1", "1", "2", "5", "S">>)>>,
      <<<<"2", "0", "0", " ", "S", " ", "F", "r", "e", "e">>,
          PyStr(<<"1", "2", "0", "0", "S">>)>>,
      <<<<"4", "0", "0", " ", "S", " ", "F", "r", "e", "e">>,
          PyStr(<<"1", "4", "0", "0", "S">>)>>,
      <<<<"5", "0", "0", " ", "S", " ", "F", "r", "e", "e">>,
          PyStr(<<"1", "5", "0", "0", "S">>)>>,
      <<<<"8", "0", "0", " ", "S", " ", "F", "r", "e", "e">>,
          PyStr(<<"1", "8", "0", "0", "S">>)>>,
      <<<<"1", "0", "0", "0", " ", "S", " ", "F", "r", "e", "e">>,
          PyStr(<<"1", "1", "0", "0", "0", "S">>)>>,
      <<<<"1", "5", "0", "0", " ", "S", " ", "F", "r", "e", "e">>,
          PyStr(<<"1", "1", "5", "0", "0", "S">>)>>,
      <<<<"1", "6", "5", "0", " ", "S", " ", "F", "r", "e", "e">>,
          PyStr(<<"1", "1", "6", "5", "0", "S">>)>>,
      <<<<"5", "0", " ", "S", " ", "B", "a", "c", "k">>,
          PyStr(<<"2", "5", "0", "S">>)>>,
      <<<<"1", "0", "0", " ", "S", " ", "B", "a", "c", "k">>,
          PyStr(<<"2", "1", "0", "0", "S">>)>>,
      <<<<"2", "0", "0", " ", "S", " ", "B", "a", "c", "k">>,
          PyStr(<<"2", "2", "0", "0", "S">>)>>,
      <<<<"5", "0", " ", "S", " ", "B", "r", "e", "a", "s", "t">>,
          PyStr(<<"3", "5", "0", "S">>)>>,
      <<<<"1", "0", "0", " ", "S", " ", "B", "r", "e", "a", "s", "t">>,
          PyStr(<<"3", "1", "0", "0", "S">>)>>,
      <<<<"2", "0", "0", " ", "S", " ", "B", "r", "e", "a", "s", "t">>,
          PyStr(<<"3", "2", "0", "0", "S">>)>>,
      <<<<"5", "0", " ", "S", " ", "F", "l", "y">>,
          PyStr(<<"4", "5", "0", "S">>)>>,
      <<<<"1", "0", "0", " ", "S", " ", "F", "l", "y">>,
          PyStr(<<"4", "1", "0", "0", "S">>)>>,
      <<<<"2", "0", "0", " ", "S", " ", "F", "l", "y">>,
          PyStr(<<"4", "2", "0", "0", "S">>)>>,
      <<<<"1", "0", "0", " ", "S", " ", "I", "M">>,
          PyStr(<<"5", "1", "0", "0", "S">>)>>,
      <<<<"2", "0", "0", " ", "S", " ", "I", "M">>,
          PyStr(<<"5", "2", "0", "0", "S">>)>>,
      <<<<"4", "0", "0", " ", "S", " ", "I", "M">>,
          PyStr(<<"5", "4", "0", "0", "S">>)>>,
      <<<<"5", "0", " ", "L", " ", "F", "r", "e", "e">>,
          PyStr(<<"1", "5", "0", "L">>)>>,
      <<<<"1", "0", "0", " ", "L", " ", "F", "r", "e", "e">>,
          PyStr(<<"1", "1", "0", "0", "L">>)>>,
      <<<<"2", "0", "0", " ", "L", " ", "F", "r", "e", "e">>,
          PyStr(<<"1", "2", "0", "0", "L">>)>>,
      <<<<"4", "0", "0", " ", "L", " ", "F", "r", "e", "e">>,
          PyStr(<<"1", "4", "0", "0", "L">>)>>,
      <<<<"5", "0", "0", " ", "L", " ", "F", "r", "e", "e">>,
          PyStr(<<"1", "5", "0", "0", "L">>)>>,
      <<<<"8", "0", "0", " ", "L", " ", "F", "r", "e", "e">>,
          PyStr(<<"1", "8", "0", "0", "L">>)>>,
      <<<<"1", "0", "0", "0", " ", "L", " ", "F", "r", "e", "e">>,
          PyStr(<<"1", "1", "0", "0", "0", "L">>)>>,
      <<<<"1", "5", "0", "0", " ", "L", " ", "F", "r", "e", "e">>,
          PyStr(<<"1", "1", "5", "0", "0", "L">>)>>,
      <<<<"1", "6", "5", "0", " ", "L", " ", "F", "r", "e", "e">>,
          PyStr(<<"1", "1", "6", "5", "0", "L">>)>>,
      <<<<"5", "0", " ", "L", " ", "B", "a", "c", "k">>,
          PyStr(<<"2", "5", "0", "L">>)>>,
      <<<<"1", "0", "0", " ", "L", " ", "B", "a", "c", "k">>,
          PyStr(<<"2", "1", "0", "0", "L">>)>>,
      <<<<"2", "0", "0", " ", "L", " ", "B", "a", "c", "k">>,
          PyStr(<<"2", "2", "0", "0", "L">>)>>,
      <<<<"5", "0", " ", "L", " ", "B", "r", "e", "a", "s", "t">>,
          PyStr(<<"3", "5", "0", "L">>)>>,
      <<<<"1", "0", "0", " ", "L", " ", "B", "r", "e", "a", "s", "t">>,
          PyStr(<<"3", "1", "0", "0", "L">>)>>,
      <<<<"2", "0", "0", " ", "L", " ", "B", "r", "e", "a", "s", "t">>,
          PyStr(<<"3", "2", "0", "0", "L">>)>>,
      <<<<"5", "0", " ", "L", " ", "F", "l", "y">>,
          PyStr(<<"4", "5", "0", "L">>)>>,
      <<<<"1", "0", "0", " ", "L", " ", "F", "l", "y">>,
          PyStr(<<"4", "1", "0", "0", "L">>)>>,
      <<<<"2", "0", "0", " ", "L", " ", "F", "l", "y">>,
          PyStr(<<"4", "2", "0", "0", "L">>)>>,
      <<<<"1", "0", "0", " ", "L", " ", "I", "M">>,
          PyStr(<<"5", "1", "0", "0", "L">>)>>,
      <<<<"2", "0", "0", " ", "L", " ", "I", "M">>,
          PyStr(<<"5", "2", "0", "0", "L">>)>>,
      <<<<"4", "0", "0", " ", "L", " ", "I", "M">>,
          PyStr(<<"5", "4", "0", "0", "L">>)>>
    >>

\* an exception leaving the function
Raise(name) == [t |-> "raise", n |-> 0, s |-> <<name>>]

\* events.get(event_name)
getEventID(event_name) ==
    LET hit == {i \in 1..Len(events) : PyStr(events[i][1]) = event_name}
    IN  IF hit = {} THEN PyNone ELSE events[CHOOSE i \in hit : TRUE][2]

\* s.replace(" ", "")
RECURSIVE NoSpaces(_)
NoSpaces(cs) ==
    IF cs = <<>> THEN <<>>
    ELSE IF Head(cs) = " " THEN NoSpaces(Tail(cs))
    ELSE <<Head(cs)>> \o NoSpaces(Tail(cs))

\* getEventName over a reverse index whose codes had their spaces removed
getEventNameCodesCleaned(event_ID) ==
    LET clean(v) == IF v.t = "str" THEN PyStr(NoSpaces(v.s)) ELSE v
        hit == {i \in 1..Len(events) : clean(events[i][2]) = event_ID}
    IN  IF hit = {} THEN Raise("ValueError")
        ELSE PyStr(events[CHOOSE i \in hit : \A j \in hit : i <= j][1])

\* getEventName with the failed search turned into None
getEventNameOrNone(event_ID) ==
    LET hit == {i \in 1..Len(events) : events[i][2] = event_ID}
    IN  IF hit = {} THEN PyNone
        ELSE PyStr(events[CHOOSE i \in hit : \A j \in hit : i <= j][1])

\* list(events.keys())[list(events.values()).index(event_ID)]
getEventName(event_ID) ==
    LET hit == {i \in 1..Len(events) : events[i][2] = event_ID}
    IN  IF hit = {} THEN Raise("ValueError")
        ELSE PyStr(events[CHOOSE i \in hit : \A j \in hit : i <= j][1])

EventLabels == {PyStr(events[i][1]) : i \in 1..Len(events)}
EventCodes == {events[i][2] : i \in 1..Len(events)}

\* labels and codes that the table does not have
StrangeEvents ==
    {PyNone, PyInt(6100), PyStr(<<"6", "2", "0", "0">>), PyStr(<<"2", "2", "5", "Y">>),
     PyStr(<<"5", "0", " ", "y", " ", "f", "r", "e", "e">>),
     PyStr(<<"3", " ", "M", " ", "D", "i", "v", "i", "n", "g">>), PyStr(<<>>)}

InitEvents ==
    /\ arg \in EventLabels \cup EventCodes \cup StrangeEvents
    /\ ret = <<>>
    /\ op = "none"
    /\ AllTimesIdle
    /\ TeamsIdle
    /\ RunIdle

CallGetEventID ==
    /\ op = "none"
    /\ op' = "getEventID"
    /\ ret' = getEventID(arg)
    /\ UNCHANGED arg
    /\ UNCHANGED atVars /\ UNCHANGED teamVars /\ UNCHANGED run

CallGetEventName ==
    /\ op = "none"
    /\ op' = "getEventName"
    /\ ret' = getEventName(arg)
    /\ UNCHANGED arg
    /\ UNCHANGED atVars /\ UNCHANGED teamVars /\ UNCHANGED run

\* getEventName(getEventID(arg)): the second call, on the result of the first
CallGetEventNameOfID ==
    /\ op = "getEventID"
    /\ op' = "getEventName(getEventID)"
    /\ ret' = getEventName(ret)
    /\ UNCHANGED arg
    /\ UNCHANGED atVars /\ UNCHANGED teamVars /\ UNCHANGED run

NextEvents == CallGetEventID \/ CallGetEventName \/ CallGetEventNameOfID

SpecEvents == InitEvents /\ [][NextEvents]_vars

\* C3: for every label of the table, getEventName(getEventID(label)) is that
\* label, and no two labels of the table have the same code.
C3_RoundTrip ==
    /\ (op = "getEventName(getEventID)" /\ arg \in EventLabels) => ret = arg
    /\ \A i, j \in 1..Len(events) : events[i][2] = events[j][2] => i = j

\* "25 Y Back" went to "225 Y", space included, and came back
C3_Witness ==
    /\ op = "getEventName(getEventID)"
    /\ arg = PyStr(<<"2", "5", " ", "Y", " ", "B", "a", "c", "k">>)
    /\ getEventID(arg) = PyStr(<<"2", "2", "5", " ", "Y">>)
    /\ ret = arg

\* the rows of the table that hold the code, or the label, given as argument
RowsWithCode == {i \in 1..Len(events) : events[i][2] = arg}
RowsWithLabel == {i \in 1..Len(events) : PyStr(events[i][1]) = arg}

\* C15: getEventName returns the one label of the table whose code is the
\* argument, and raises when the table has no such code; getEventID returns
\* the code stored with a label of the table.
C15_LookupByCodeOrLabel ==
    /\ op = "getEventName" =>
          /\ RowsWithCode = {} => ret = Raise("ValueError")
          /\ RowsWithCode # {} =>
                /\ Cardinality(RowsWithCode) = 1
                /\ \A i \in RowsWithCode : ret = PyStr(events[i][1])
          /\ ret.t \in {"str", "raise"}
    /\ (op = "getEventID" /\ arg \in EventLabels) =>
          /\ Cardinality(RowsWithLabel) = 1
          /\ \A i \in RowsWithLabel : ret = events[i][2]

\* the code "225Y", without the space of the table's "225 Y", was refused
C15_Witness ==
    /\ op = "getEventName"
    /\ arg = PyStr(<<"2", "2", "5", "Y">>)
    /\ RowsWithCode = {}
    /\ ret = Raise("ValueError")

(***************************************************************************)
(* The teams table: load_teams, set_teams_csv, getTeamID, getTeamName      *)
(***************************************************************************)
expected_cols ==
    <<"team_name", "team_ID", "team_state", "team_division", "team_division_ID",
      "team_conference", "team_conference_ID">>

\* a file is missing, or has zero bytes ("zero"), or has bytes in which
\* read_csv finds no column ("nocolumns"), or bytes read_csv cannot parse
\* ("unparsable"), or it is a table with a header and rows
File(kind, columns, rows) == [kind |-> kind, columns |-> columns, rows |-> rows]

Frame(columns, rows) == [t |-> "frame", columns |-> columns, rows |-> rows]

\* pd.read_csv(path) on a file that exists and is not of zero bytes
read_csv(file) ==
    CASE file.kind = "nocolumns" -> Raise("EmptyDataError")
      [] file.kind = "unparsable" -> Raise("ParserError")
      [] OTHER -> Frame(file.columns, file.rows)

\* load_teams without the guards: read_csv is called whatever the file is
load_teams_unguarded(file) ==
    IF file.kind = "missing" THEN Raise("FileNotFoundError")
    ELSE IF file.kind = "zero" THEN Raise("EmptyDataError")
    ELSE LET got == read_csv(file)
         IN  IF got.t = "raise" THEN got
             ELSE Frame(expected_cols,
                      [i \in 1..Len(got.rows) |->
                          [c \in Range(expected_cols) |->
                              IF c \in Range(got.columns) THEN got.rows[i][c] ELSE PyNone]])

\* load_teams(path): the frame returned, or the exception let out
load_teams(file) ==
    IF file.kind = "missing" THEN Frame(expected_cols, <<>>)
    ELSE IF file.kind = "zero" THEN Frame(expected_cols, <<>>)
    ELSE LET got == read_csv(file)
         IN  IF got.t = "raise"
             THEN IF got = Raise("EmptyDataError") THEN Frame(expected_cols, <<>>) ELSE got
             ELSE Frame(expected_cols,
                      [i \in 1..Len(got.rows) |->
                          [c \in Range(expected_cols) |->
                              IF c \in Range(got.columns) THEN got.rows[i][c] ELSE PyNone]])

\* getTeamID that returns at the first matching row
RECURSIVE FirstTeamID(_, _)
FirstTeamID(rows, team_name) ==
    IF rows = <<>> THEN PyInt(0 - 1)
    ELSE IF Head(rows)["team_name"] = team_name THEN Head(rows)["team_ID"]
    ELSE FirstTeamID(Tail(rows), team_name)

getTeamIDFirstMatch(team_name) == FirstTeamID(teams.rows, team_name)

\* the loop of getTeamID over teams.iterrows()
RECURSIVE TeamIDLoop(_, _, _)
TeamIDLoop(rows, team_name, team_number) ==
    IF rows = <<>> THEN team_number
    ELSE TeamIDLoop(Tail(rows), team_name,
             IF Head(rows)["team_name"] = team_name
             THEN Head(rows)["team_ID"] ELSE team_number)

getTeamID(team_name) == TeamIDLoop(teams.rows, team_name, PyInt(0 - 1))

\* the loop of getTeamName over teams.iterrows()
RECURSIVE TeamNameLoop(_, _, _)
TeamNameLoop(rows, team_ID, team_name) ==
    IF rows = <<>> THEN team_name
    ELSE TeamNameLoop(Tail(rows), team_ID,
             IF Head(rows)["team_ID"] = team_ID
             THEN Head(rows)["team_name"] ELSE team_name)

getTeamName(team_ID) == TeamNameLoop(teams.rows, team_ID, PyStr(<<>>))

MaxTeams == 2

TeamNames == {PyStr(<<"U", "F">>), PyStr(<<"U", "T">>)}
TeamIDs == {PyInt(117), PyInt(105)}

\* one line of a teams file that has every expected column
TeamLine(name, id) ==
    [c \in Range(expected_cols) |->
        CASE c = "team_name" -> name
          [] c = "team_ID" -> id
          [] OTHER -> PyStr(<<"N", "A">>)]

\* the headers a teams file may have: complete, in another order with columns
\* missing, and without the name column
Headers ==
    {expected_cols, <<"team_ID", "team_name", "team_state">>, <<"team_ID", "team_division">>}

Files ==
    {File(k, <<>>, <<>>) : k \in {"missing", "zero", "nocolumns", "unparsable"}}
    \cup {File("table", h, [i \in 1..Len(lines) |-> [c \in Range(h) |-> lines[i][c]]]) :
             h \in Headers,
             lines \in SeqsUpTo({TeamLine(nm, id) : nm \in TeamNames, id \in TeamIDs}, MaxTeams)}

LookupNames == TeamNames \cup {PyStr(<<"M", "I", "T">>), PyNone}
LookupIDs == TeamIDs \cup {PyInt(1), PyStr(<<"1", "1", "7">>)}

Called(fn, a, v) == [fn |-> fn, arg |-> a, val |-> v]

\* the state after `import SwimScraper`: teams = load_teams()
InitTeams ==
    /\ csv \in Files
    /\ LET got == load_teams(csv)
       IN  IF got.t = "raise"
           THEN teams = Frame(<<>>, <<>>) /\ tpc = "import failed"
                /\ tret = Called("load_teams", PyNone, got)
           ELSE teams = got /\ tpc = "ready"
                /\ tret = Called("load_teams", PyNone, PyNone)
    /\ PureIdle
    /\ AllTimesIdle
    /\ RunIdle

\* set_teams_csv(path) on a path whose file is in any of the states
set_teams_csv ==
    /\ tpc = "ready"
    /\ \E file \in Files :
         LET got == load_teams(file)
         IN  /\ csv' = file
             /\ IF got.t = "raise"
                THEN teams' = teams /\ tret' = Called("set_teams_csv", PyNone, got)
                ELSE teams' = got /\ tret' = Called("set_teams_csv", PyNone, PyNone)
    /\ UNCHANGED tpc
    /\ UNCHANGED pureVars /\ UNCHANGED atVars /\ UNCHANGED run

CallGetTeamID ==
    /\ tpc = "ready"
    /\ \E team_name \in LookupNames :
         tret' = Called("getTeamID", team_name, getTeamID(team_name))
    /\ UNCHANGED <<csv, teams, tpc>>
    /\ UNCHANGED pureVars /\ UNCHANGED atVars /\ UNCHANGED run

CallGetTeamName ==
    /\ tpc = "ready"
    /\ \E team_ID \in LookupIDs :
         tret' = Called("getTeamName", team_ID, getTeamName(team_ID))
    /\ UNCHANGED <<csv, teams, tpc>>
    /\ UNCHANGED pureVars /\ UNCHANGED atVars /\ UNCHANGED run

NextTeams == set_teams_csv \/ CallGetTeamID \/ CallGetTeamName

SpecTeams == InitTeams /\ [][NextTeams]_vars

MaxOf(S) == CHOOSE i \in S : \A j \in S : j <= i

\* C7: getTeamID and getTeamName return the value of the last row of the
\* loaded table whose key equals the argument, and -1 / "" when no row does.
C7_LastMatchOrSentinel ==
    /\ tret.fn = "getTeamID" =>
          LET hit == {i \in 1..Len(teams.rows) : teams.rows[i]["team_name"] = tret.arg}
          IN  tret.val = (IF hit = {} THEN PyInt(0 - 1)
                          ELSE teams.rows[MaxOf(hit)]["team_ID"])
    /\ tret.fn = "getTeamName" =>
          LET hit == {i \in 1..Len(teams.rows) : teams.rows[i]["team_ID"] = tret.arg}
          IN  tret.val = (IF hit = {} THEN PyStr(<<>>)
                          ELSE teams.rows[MaxOf(hit)]["team_name"])

\* two rows of one name with different IDs: the lookup gave the later ID
C7_Witness ==
    /\ tret.fn = "getTeamID"
    /\ \E i, j \in 1..Len(teams.rows) :
          /\ i < j
          /\ teams.rows[i]["team_name"] = tret.arg
          /\ teams.rows[j]["team_name"] = tret.arg
          /\ teams.rows[i]["team_ID"] # teams.rows[j]["team_ID"]
          /\ tret.val = teams.rows[j]["team_ID"]
          /\ \A k \in (j + 1)..Len(teams.rows) : teams.rows[k]["team_name"] # tret.arg

\* C8: with the file missing, of zero bytes or without a parseable column,
\* load_teams raises nothing and gives zero rows under the seven expected
\* columns in their order; the lookups then return -1 and "".
C8_EmptyTableNotFailure ==
    csv.kind \in {"missing", "zero", "nocolumns"} =>
        /\ tpc = "ready"
        /\ tret.fn \in {"load_teams", "set_teams_csv"} => tret.val = PyNone
        /\ teams.rows = <<>>
        /\ teams.columns =
              <<"team_name", "team_ID", "team_state", "team_division", "team_division_ID",
                "team_conference", "team_conference_ID">>
        /\ tret.fn = "getTeamID" => tret.val = PyInt(0 - 1)
        /\ tret.fn = "getTeamName" => tret.val = PyStr(<<>>)

\* a table with rows was replaced by a file without columns, and a name the
\* old table had is no longer found
C8_Witness ==
    /\ csv.kind = "nocolumns"
    /\ teams.rows = <<>>
    /\ tret.fn = "getTeamID"
    /\ tret.arg \in TeamNames
    /\ tret.val = PyInt(0 - 1)

(***************************************************************************)
(* convertTime                                                             *)
(*                                                                         *)
(* A float is kept as an exact decimal m * 10^e (m without trailing zero), *)
(* or as inf, -inf or nan; binary rounding is not modelled.                *)
(***************************************************************************)
CtNone == [t |-> "none", k |-> "", m |-> 0, e |-> 0]
CtRaise(name) == [t |-> "raise", k |-> name, m |-> 0, e |-> 0]

RECURSIVE Pow10(_)
Pow10(n) == IF n = 0 THEN 1 ELSE 10 * Pow10(n - 1)

RECURSIVE Fin(_, _)
Fin(m, e) ==
    IF m = 0 THEN [t |-> "float", k |-> "fin", m |-> 0, e |-> 0]
    ELSE IF m % 10 = 0 THEN Fin(m \div 10, e + 1)
    ELSE [t |-> "float", k |-> "fin", m |-> m, e |-> e]

Special(kind) == [t |-> "float", k |-> kind, m |-> 0, e |-> 0]

\* x * 60
Times60(x) == IF x.k = "fin" THEN Fin(x.m * 60, x.e) ELSE x

\* x + y
Plus(x, y) ==
    IF x.k = "nan" \/ y.k = "nan" THEN Special("nan")
    ELSE IF x.k # "fin" /\ y.k # "fin" THEN (IF x.k = y.k THEN x ELSE Special("nan"))
    ELSE IF x.k # "fin" THEN x
    ELSE IF y.k # "fin" THEN y
    ELSE LET e == IF x.e < y.e THEN x.e ELSE y.e
         IN  Fin(x.m * Pow10(x.e - e) + y.m * Pow10(y.e - e), e)

IsDigit(c) == \E i \in 1..10 : DigitChars[i] = c
DigitValue(c) == (CHOOSE i \in 1..10 : DigitChars[i] = c) - 1
IsUpper(c) == \E i \in 34..59 : Ascii[i] = c
IsLower(c) == \E i \in 66..91 : Ascii[i] = c
\* str.isalpha() on one character (ASCII letters)
IsAlphaChar(c) == IsUpper(c) \/ IsLower(c)
IsSpace(c) == c = " "

\* s.isalpha()
isalpha(cs) == cs # <<>> /\ \A i \in 1..Len(cs) : IsAlphaChar(cs[i])

\* s.lower()
lower(cs) == [i \in 1..Len(cs) |-> IF IsUpper(cs[i]) THEN Ascii[Ord(cs[i]) - 31 + 32] ELSE cs[i]]

\* s.strip()
RECURSIVE lstrip(_)
lstrip(cs) == IF cs # <<>> /\ IsSpace(Head(cs)) THEN lstrip(Tail(cs)) ELSE cs

RECURSIVE rstrip(_)
rstrip(cs) ==
    IF cs # <<>> /\ IsSpace(cs[Len(cs)]) THEN rstrip(SubSeq(cs, 1, Len(cs) - 1)) ELSE cs

strip(cs) == rstrip(lstrip(cs))

\* digits, with single underscores between digits only
IsDigitPart(cs) ==
    /\ cs # <<>>
    /\ \A i \in 1..Len(cs) : IsDigit(cs[i]) \/ cs[i] = "_"
    /\ IsDigit(cs[1]) /\ IsDigit(cs[Len(cs)])
    /\ \A i \in 1..(Len(cs) - 1) : ~(cs[i] = "_" /\ cs[i + 1] = "_")

RECURSIVE DigitsOnly(_)
DigitsOnly(cs) ==
    IF cs = <<>> THEN <<>>
    ELSE IF Head(cs) = "_" THEN DigitsOnly(Tail(cs))
    ELSE <<Head(cs)>> \o DigitsOnly(Tail(cs))

RECURSIVE NatOfDigits(_)
NatOfDigits(ds) ==
    IF ds = <<>> THEN 0
    ELSE 10 * NatOfDigits(SubSeq(ds, 1, Len(ds) - 1)) + DigitValue(ds[Len(ds)])

HasSign(cs) == cs # <<>> /\ cs[1] \in {"+", "-"}
Unsigned(cs) == IF HasSign(cs) THEN Tail(cs) ELSE cs
Signed(cs, n) == IF cs # <<>> /\ cs[1] = "-" THEN 0 - n ELSE n

\* the place of the exponent letter, 0 when there is none
ExpIndex(cs) ==
    IF Contains(cs, "e") \/ Contains(cs, "E")
    THEN CHOOSE i \in 1..Len(cs) :
             cs[i] \in {"e", "E"} /\ \A j \in 1..(i - 1) : cs[j] \notin {"e", "E"}
    ELSE 0

Mantissa(cs) == IF ExpIndex(cs) = 0 THEN cs ELSE SubSeq(cs, 1, ExpIndex(cs) - 1)
Exponent(cs) == SubSeq(cs, ExpIndex(cs) + 1, Len(cs))
IntPart(mant) == IF Contains(mant, ".") THEN SubSeq(mant, 1, FirstIndex(mant, ".") - 1) ELSE mant
FracPart(mant) ==
    IF Contains(mant, ".") THEN SubSeq(mant, FirstIndex(mant, ".") + 1, Len(mant)) ELSE <<>>

\* a decimal literal of float(): digits, a point, an exponent
IsDecimal(cs) ==
    LET mant == Mantissa(cs)
    IN  /\ IntPart(mant) = <<>> \/ IsDigitPart(IntPart(mant))
        /\ FracPart(mant) = <<>> \/ IsDigitPart(FracPart(mant))
        /\ IntPart(mant) # <<>> \/ FracPart(mant) # <<>>
        /\ ExpIndex(cs) # 0 => IsDigitPart(Unsigned(Exponent(cs)))

DecimalValue(cs) ==
    LET mant == Mantissa(cs)
        frac == DigitsOnly(FracPart(mant))
        digits == DigitsOnly(IntPart(mant)) \o frac
        ex == IF ExpIndex(cs) = 0 THEN 0
              ELSE Signed(Exponent(cs), NatOfDigits(DigitsOnly(Unsigned(Exponent(cs)))))
    IN  Fin(NatOfDigits(digits), ex - Len(frac))

\* float(s) for a str: the number, or ValueError
float(cs) ==
    LET s == strip(cs)
        body == Unsigned(s)
        neg == s # <<>> /\ s[1] = "-"
        word == lower(body)
    IN  IF word \in {<<"i", "n", "f">>, <<"i", "n", "f", "i", "n", "i", "t", "y">>}
        THEN Special(IF neg THEN "-inf" ELSE "inf")
        ELSE IF word = <<"n", "a", "n">> THEN Special("nan")
        ELSE IF IsDecimal(body)
        THEN LET v == DecimalValue(body) IN IF neg THEN Fin(0 - v.m, v.e) ELSE v
        ELSE CtRaise("ValueError")

\* convertTime without the isalpha branch
convertTimeNoAlpha(display_time) ==
    LET s == strip(Str(display_time))
    IN  IF Contains(s, ":")
        THEN LET minutes == float(SubSeq(s, 1, FirstIndex(s, ":") - 1))
                 seconds == float(SubSeq(s, FirstIndex(s, ":") + 1, Len(s)))
             IN  IF minutes.t = "raise" THEN minutes
                 ELSE IF seconds.t = "raise" THEN seconds
                 ELSE Plus(Times60(minutes), seconds)
        ELSE float(s)

\* convertTime that takes whatever float() refuses for a code and gives None
convertTimeLenient(display_time) ==
    LET s == strip(Str(display_time))
    IN  IF Contains(s, ":")
        THEN LET minutes == float(SubSeq(s, 1, FirstIndex(s, ":") - 1))
                 seconds == float(SubSeq(s, FirstIndex(s, ":") + 1, Len(s)))
             IN  IF minutes.t = "raise" \/ seconds.t = "raise" THEN CtNone
                 ELSE Plus(Times60(minutes), seconds)
        ELSE IF float(s).t = "raise" THEN CtNone
        ELSE float(s)

convertTime(display_time) ==
    LET s == strip(Str(display_time))
    IN  IF Contains(s, ":")
        THEN LET minutes == float(SubSeq(s, 1, FirstIndex(s, ":") - 1))
                 seconds == float(SubSeq(s, FirstIndex(s, ":") + 1, Len(s)))
             IN  IF minutes.t = "raise" THEN minutes
                 ELSE IF seconds.t = "raise" THEN seconds
                 ELSE Plus(Times60(minutes), seconds)
        ELSE IF isalpha(s) THEN CtNone
        ELSE float(s)

MaxTimeLen == 4

TimeChars == {"1", "5", ".", ":", "e", "D", "-", " "}

SampleTimes ==
    {PyStr(<<"1", ":", "0", "2", ".", "5", "0">>),
     PyStr(<<"2", "3", ".", "1", "4">>),
     PyStr(<<"D", "N", "S">>),
     PyStr(<<"D", "Q">>),
     PyStr(<<"N", "S">>),
     PyStr(<<"1", "2", "a">>),
     PyStr(<<"x", ":", "y">>),
     PyStr(<<"1", ":", "2", ":", "3">>),
     PyStr(<<"i", "n", "f">>),
     PyStr(<<"n", "a", "n">>),
     PyStr(<<"-", "i", "n", "f">>),
     PyStr(<<"1", ":", "n", "a", "n">>),
     PyStr(<<"I", "n", "f", "i", "n", "i", "t", "y">>),
     PyStr(<<"1", "_", "0">>),
     PyStr(<<"1", "_", "_", "0">>),
     PyStr(<<"+", "5">>),
     PyStr(<<" ", " ", "5", "9", ".", "9", " ">>),
     PyStr(<<"0", ":", "0", "0", ".", "0", "0">>),
     PyStr(<<"1", ":", "-", "5">>),
     PyStr(<<"1", "E", "2">>),
     PyStr(<<"2", ":", "0", "5">>),
     PyStr(<<"N", "T", "1">>),
     PyNone, PyInt(62)}

InitTime ==
    /\ arg \in {PyStr(cs) : cs \in SeqsUpTo(TimeChars, MaxTimeLen)} \cup SampleTimes
    /\ ret = <<>>
    /\ op = "none"
    /\ AllTimesIdle
    /\ TeamsIdle
    /\ RunIdle

CallConvertTime ==
    /\ op = "none"
    /\ op' = "convertTime"
    /\ ret' = convertTime(arg)
    /\ UNCHANGED arg
    /\ UNCHANGED atVars /\ UNCHANGED teamVars /\ UNCHANGED run

NextTime == CallConvertTime

SpecTime == InitTime /\ [][NextTime]_vars

\* the text convertTime works on
TimeText == strip(Str(arg))

\* a plain number: digits, or digits "." digits
IsPlainNumber(cs) ==
    /\ cs # <<>>
    /\ \A i \in 1..Len(cs) : IsDigit(cs[i]) \/ cs[i] = "."
    /\ Cardinality({i \in 1..Len(cs) : cs[i] = "."}) <= 1
    /\ IsDigit(cs[1]) /\ IsDigit(cs[Len(cs)])

AllDigits(cs) == cs # <<>> /\ \A i \in 1..Len(cs) : IsDigit(cs[i])

\* how many digits follow the point, and the number with the point taken out
Decimals(cs) == IF Contains(cs, ".") THEN Len(cs) - FirstIndex(cs, ".") ELSE 0
Unpointed(cs) == NatOfDigits(SelectSeq(cs, IsDigit))

\* ret is the finite number n / 10^k
IsNumber(n, k) ==
    /\ ret.t = "float" /\ ret.k = "fin"
    /\ ret.e + k >= 0
    /\ ret.m * Pow10(ret.e + k) = n

\* C9: "M:SS.ss" gives minutes * 60 + seconds, a plain number gives itself,
\* a purely alphabetic text gives None; "1:02.50" is 62.5 and "23.14" 23.14.
C9_ParsesTimes ==
    op = "convertTime" =>
        LET s == TimeText
            colon == FirstIndex(s, ":")
            mins == SubSeq(s, 1, colon - 1)
            secs == SubSeq(s, colon + 1, Len(s))
        IN  /\ IsPlainNumber(s) => IsNumber(Unpointed(s), Decimals(s))
            /\ (Contains(s, ":") /\ AllDigits(mins) /\ IsPlainNumber(secs)) =>
                  IsNumber(NatOfDigits(mins) * 60 * Pow10(Decimals(secs)) + Unpointed(secs),
                           Decimals(secs))
            /\ (s # <<>> /\ \A i \in 1..Len(s) : IsAlphaChar(s[i])) => ret = CtNone
            /\ arg = PyStr(<<"1", ":", "0", "2", ".", "5", "0">>) => IsNumber(6250, 2)
            /\ arg = PyStr(<<"2", "3", ".", "1", "4">>) => IsNumber(2314, 2)
            /\ arg \in {PyStr(<<"D", "N", "S">>), PyStr(<<"D", "Q">>), PyStr(<<"N", "S">>)} =>
                  ret = CtNone

\* convertTime("1:02.50") returned 62.5
C9_Witness ==
    /\ op = "convertTime"
    /\ arg = PyStr(<<"1", ":", "0", "2", ".", "5", "0">>)
    /\ ret = Fin(625, 0 - 1)

\* a number as one writes a time: a sign or none, digits with or without a
\* point; and two of them about a colon
IsWrittenNumber(cs) ==
    LET body == Unsigned(strip(cs))
    IN  /\ body # <<>>
        /\ \A i \in 1..Len(body) : IsDigit(body[i]) \/ body[i] = "."
        /\ Cardinality({i \in 1..Len(body) : body[i] = "."}) <= 1
        /\ \E i \in 1..Len(body) : IsDigit(body[i])

IsWrittenTime(cs) ==
    IF Contains(cs, ":")
    THEN /\ IsWrittenNumber(SubSeq(cs, 1, FirstIndex(cs, ":") - 1))
         /\ IsWrittenNumber(SubSeq(cs, FirstIndex(cs, ":") + 1, Len(cs)))
    ELSE IsWrittenNumber(cs)

\* C10 as stated: whatever is neither a number or "M:SS.ss" time nor purely
\* alphabetic raises, and only the purely alphabetic gives None.
C10_RaisesUnlessTimeOrCode ==
    op = "convertTime" =>
        /\ (~IsWrittenTime(TimeText) /\ ~isalpha(TimeText)) => ret.t = "raise"
        /\ ret.t = "none" => isalpha(TimeText)

\* what float() takes, for the whole text or for both sides of its first colon
FloatTakes(cs) ==
    IF Contains(cs, ":")
    THEN /\ float(SubSeq(cs, 1, FirstIndex(cs, ":") - 1)).t = "float"
         /\ float(SubSeq(cs, FirstIndex(cs, ":") + 1, Len(cs))).t = "float"
    ELSE float(cs).t = "float"

\* C10, amended: convertTime raises ValueError exactly for the texts that are
\* not purely alphabetic and that float() refuses (whole, or on a side of the
\* first colon); it gives None exactly for the purely alphabetic texts; the
\* empty text, "12a", "x:y" and "1:2:3" raise.
C10_RaisesUnlessFloatOrCode ==
    op = "convertTime" =>
        /\ ret.t = "raise" <=> (~isalpha(TimeText) /\ ~FloatTakes(TimeText))
        /\ ret.t = "none" <=> isalpha(TimeText)
        /\ ret.t \in {"raise", "none", "float"}
        /\ arg \in {PyStr(<<>>), PyStr(<<"1", "2", "a">>), PyStr(<<"x", ":", "y">>),
                    PyStr(<<"1", ":", "2", ":", "3">>)} => ret = CtRaise("ValueError")

\* convertTime("12a") raised
C10_Witness ==
    /\ op = "convertTime"
    /\ arg = PyStr(<<"1", "2", "a">>)
    /\ ret = CtRaise("ValueError")

(***************************************************************************)
(* getState, getCity                                                       *)
(***************************************************************************)
\* " ".join(parts)
RECURSIVE JoinSpace(_)
JoinSpace(parts) ==
    IF parts = <<>> THEN <<>>
    ELSE IF Len(parts) = 1 THEN parts[1]
    ELSE parts[1] \o <<" ">> \o JoinSpace(Tail(parts))

\* getState that tests the segment before trimming it
getStateUntrimmed(hometown) ==
    LET home == Split(hometown, ",")[Len(Split(hometown, ","))]
    IN  IF isalpha(home) THEN strip(home) ELSE <<"N", "O", "N", "E">>

getState(hometown) ==
    LET home == strip(Split(hometown, ",")[Len(Split(hometown, ","))])
    IN  IF isalpha(home) THEN home ELSE <<"N", "O", "N", "E">>

\* getCity that drops the last segment only when getState takes it
getCityKeepsNonState(hometown) ==
    LET parts == Split(hometown, ",")
        home == IF isalpha(strip(parts[Len(parts)]))
                THEN SubSeq(parts, 1, Len(parts) - 1) ELSE parts
    IN  JoinSpace([i \in 1..Len(home) |-> strip(home[i])])

getCity(hometown) ==
    LET parts == Split(hometown, ",")
        home == SubSeq(parts, 1, Len(parts) - 1)
    IN  JoinSpace([i \in 1..Len(home) |-> strip(home[i])])

MaxHomeLen == 4

HomeChars == {"A", "x", ",", " ", "1"}

SampleHometowns ==
    {<<"A", "u", "s", "t", "i", "n", ",", " ", "T", "X">>,
     <<"U", "n", "k", "n", "o", "w", "n", " ", "C", "i", "t", "y", ",", " ", "1", "2", "3">>,
     <<"P", "a", "r", "i", "s", ",", " ", "I", "l", "e", ",", " ", "F", "R">>,
     <<"G", "a", "i", "n", "e", "s", "v", "i", "l", "l", "e", ",", "F", "L", " ">>,
     <<"N", "e", "w", " ", "Y", "o", "r", "k">>}

HomeAustin == <<"A", "u", "s", "t", "i", "n", ",", " ", "T", "X">>
HomeUnknown ==
    <<"U", "n", "k", "n", "o", "w", "n", " ", "C", "i", "t", "y", ",", " ", "1", "2", "3">>

InitHometown ==
    /\ arg \in SeqsUpTo(HomeChars, MaxHomeLen) \cup SampleHometowns
    /\ ret = <<>>
    /\ op = "none"
    /\ AllTimesIdle
    /\ TeamsIdle
    /\ RunIdle

CallGetState ==
    /\ op = "none"
    /\ op' = "getState"
    /\ ret' = getState(arg)
    /\ UNCHANGED arg
    /\ UNCHANGED atVars /\ UNCHANGED teamVars /\ UNCHANGED run

CallGetCity ==
    /\ op = "none"
    /\ op' = "getCity"
    /\ ret' = getCity(arg)
    /\ UNCHANGED arg
    /\ UNCHANGED atVars /\ UNCHANGED teamVars /\ UNCHANGED run

NextHometown == CallGetState \/ CallGetCity

SpecHometown == InitHometown /\ [][NextHometown]_vars

\* the places of the commas of the hometown, and the text behind the last
Commas == {i \in 1..Len(arg) : arg[i] = ","}
LastComma == IF Commas = {} THEN 0 ELSE MaxOf(Commas)
LastSegment == strip(SubSeq(arg, LastComma + 1, Len(arg)))

\* the trimmed text between the commas numbered k - 1 and k (0: the start)
CommaAt(k) ==
    IF k = 0 THEN 0
    ELSE CHOOSE i \in Commas : Cardinality({j \in Commas : j <= i}) = k
SegmentBefore(k) == strip(SubSeq(arg, CommaAt(k - 1) + 1, CommaAt(k) - 1))

\* C11: getState gives the trimmed last segment when all its characters are
\* letters, and "NONE" otherwise; getCity gives the trimmed segments before
\* the last, in order with one space between two, and "" without a comma.
C11_StateAndCity ==
    /\ op = "getState" =>
          /\ (LastSegment # <<>> /\ \A i \in 1..Len(LastSegment) : IsAlphaChar(LastSegment[i]))
                => ret = LastSegment
          /\ (LastSegment = <<>> \/ \E i \in 1..Len(LastSegment) : ~IsAlphaChar(LastSegment[i]))
                => ret = <<"N", "O", "N", "E">>
    /\ op = "getCity" =>
          /\ Commas = {} => ret = <<>>
          /\ ret = JoinSpace([k \in 1..Cardinality(Commas) |-> SegmentBefore(k)])
          /\ ~Contains(ret, ",")

\* a three-segment hometown: the city is the first two, trimmed
C11_Witness ==
    /\ op = "getCity"
    /\ arg = <<"P", "a", "r", "i", "s", ",", " ", "I", "l", "e", ",", " ", "F", "R">>
    /\ ret = <<"P", "a", "r", "i", "s", " ", "I", "l", "e">>

\* C12 as stated: "Austin, TX" gives "Austin" and "TX"; "Unknown City, 123"
\* gives "NONE" and a city that still holds the segment "123".
C12_NonStateStaysInCity ==
    /\ (op = "getCity" /\ arg = HomeAustin) => ret = <<"A", "u", "s", "t", "i", "n">>
    /\ (op = "getState" /\ arg = HomeAustin) => ret = <<"T", "X">>
    /\ (op = "getState" /\ arg = HomeUnknown) => ret = <<"N", "O", "N", "E">>
    /\ (op = "getCity" /\ arg = HomeUnknown) =>
          \E i \in 1..(Len(ret) - 2) : SubSeq(ret, i, i + 2) = <<"1", "2", "3">>

\* C12, amended: "Austin, TX" gives "Austin" and "TX"; "Unknown City, 123"
\* gives "NONE" and the city "Unknown City": the last segment is left out of
\* the city although it is not taken as the state.
C12_NonStateIsDropped ==
    /\ (op = "getCity" /\ arg = HomeAustin) => ret = <<"A", "u", "s", "t", "i", "n">>
    /\ (op = "getState" /\ arg = HomeAustin) => ret = <<"T", "X">>
    /\ (op = "getState" /\ arg = HomeUnknown) => ret = <<"N", "O", "N", "E">>
    /\ (op = "getCity" /\ arg = HomeUnknown) =>
          ret = <<"U", "n", "k", "n", "o", "w", "n", " ", "C", "i", "t", "y">>

\* getCity("Unknown City, 123") returned "Unknown City"
C12_Witness ==
    /\ op = "getCity"
    /\ arg = HomeUnknown
    /\ ret = <<"U", "n", "k", "n", "o", "w", "n", " ", "C", "i", "t", "y">>

(***************************************************************************)
(* cleanName                                                               *)
(***************************************************************************)
\* s.split(): the runs of characters between whitespace
RECURSIVE split(_)
split(cs) ==
    LET rest == lstrip(cs)
        stops == {i \in 1..Len(rest) : IsSpace(rest[i])}
        n == IF stops = {} THEN Len(rest)
             ELSE (CHOOSE i \in stops : \A j \in stops : i <= j) - 1
    IN  IF rest = <<>> THEN <<>>
        ELSE <<SubSeq(rest, 1, n)>> \o split(SubSeq(rest, n + 1, Len(rest)))

\* [p.strip() for p in name.split(",") if p.strip()]
RECURSIVE StrippedParts(_)
StrippedParts(segs) ==
    IF segs = <<>> THEN <<>>
    ELSE IF strip(Head(segs)) # <<>>
         THEN <<strip(Head(segs))>> \o StrippedParts(Tail(segs))
         ELSE StrippedParts(Tail(segs))

cleanName(name) ==
    IF name = <<>> THEN PyStr(<<>>)
    ELSE LET stripped == strip(name)
             parts == StrippedParts(Split(stripped, ","))
             tokens == split(stripped)
         IN  IF Contains(stripped, ",")
             THEN IF Len(parts) = 2
                  THEN PyStr(strip(parts[2] \o <<" ">> \o parts[1]))
                  ELSE PyStr(JoinSpace(parts))
             ELSE IF Len(tokens) <= 1
                  THEN IF tokens = <<>> THEN Raise("IndexError") ELSE PyStr(tokens[1])
                  ELSE PyStr(JoinSpace(tokens))

MaxNameLen == 5

NameChars == {"A", "b", ",", " "}

SampleNames ==
    {<<"S", "m", "i", "t", "h", ",", " ", "J", "o", "h", "n">>,
     <<"D", "o", "e", ",", " ", "J", "a", "n", "e", ",", " ", "J", "r">>,
     <<"J", "o", "h", "n", " ", " ", "S", "m", "i", "t", "h">>,
     <<" ", "L", "e", "e", " ", ",">>}

InitName ==
    /\ arg \in SeqsUpTo(NameChars, MaxNameLen) \cup SampleNames
    /\ ret = <<>>
    /\ op = "none"
    /\ AllTimesIdle
    /\ TeamsIdle
    /\ RunIdle

CallCleanName ==
    /\ op = "none"
    /\ op' = "cleanName"
    /\ ret' = cleanName(arg)
    /\ UNCHANGED arg
    /\ UNCHANGED atVars /\ UNCHANGED teamVars /\ UNCHANGED run

NextName == CallCleanName

SpecName == InitName /\ [][NextName]_vars

\* the non-empty pieces of cs between the separators sep, each trimmed
PiecesOf(cs, sep) ==
    LET trimmed == [i \in 1..Len(Split(cs, sep)) |-> strip(Split(cs, sep)[i])]
        NonEmpty(x) == x # <<>>
    IN  SelectSeq(trimmed, NonEmpty)

\* C13: a name with a comma and exactly two non-empty segments comes back as
\* "First Last"; with a comma and any other number of non-empty segments, as
\* the trimmed segments in order with one space between two; without a comma,
\* as its whitespace-separated tokens in order, a single token as itself.
C13_CleanNameCases ==
    op = "cleanName" =>
        LET segments == PiecesOf(arg, ",")
            tokens == PiecesOf(arg, " ")
        IN  /\ (Contains(arg, ",") /\ Len(segments) = 2)
                  => ret = PyStr(segments[2] \o <<" ">> \o segments[1])
            /\ (Contains(arg, ",") /\ Len(segments) # 2)
                  => ret = PyStr(JoinSpace(segments))
            /\ ~Contains(arg, ",") => ret = PyStr(JoinSpace(tokens))
            /\ (~Contains(arg, ",") /\ Len(tokens) = 1) => ret = PyStr(tokens[1])

\* the same cases for the names that hold something besides whitespace
C13_CleanNameOfNonBlank ==
    (\E i \in 1..Len(arg) : ~IsSpace(arg[i])) \/ arg = <<>> => C13_CleanNameCases

\* "Smith, John" came back as "John Smith"
C13_SwapSeen ==
    /\ op = "cleanName"
    /\ arg = <<"S", "m", "i", "t", "h", ",", " ", "J", "o", "h", "n">>
    /\ ret = PyStr(<<"J", "o", "h", "n", " ", "S", "m", "i", "t", "h">>)

(***************************************************************************)
(* getSeasonID, getYear                                                    *)
(***************************************************************************)
\* getSeasonID with the season of 1996 numbered 1
getSeasonIDFromOne(year) == year - 1995

getSeasonID(year) == year - 1996

getYear(season_ID) == season_ID + 1996

START_YEAR == 2020
END_YEAR == 2024

YearSpan == 40

\* years around the configured range, and season numbers around 0
SeasonInputs ==
    ((START_YEAR - YearSpan)..(END_YEAR + YearSpan)) \cup ((0 - YearSpan)..YearSpan)

InitSeason ==
    /\ arg \in SeasonInputs
    /\ ret = <<>>
    /\ op = "none"
    /\ AllTimesIdle
    /\ TeamsIdle
    /\ RunIdle

CallGetSeasonID ==
    /\ op = "none"
    /\ op' = "getSeasonID"
    /\ ret' = getSeasonID(arg)
    /\ UNCHANGED arg
    /\ UNCHANGED atVars /\ UNCHANGED teamVars /\ UNCHANGED run

CallGetYear ==
    /\ op = "none"
    /\ op' = "getYear"
    /\ ret' = getYear(arg)
    /\ UNCHANGED arg
    /\ UNCHANGED atVars /\ UNCHANGED teamVars /\ UNCHANGED run

\* getYear(getSeasonID(year))
CallGetYearOfSeasonID ==
    /\ op = "getSeasonID"
    /\ op' = "getYear(getSeasonID)"
    /\ ret' = getYear(ret)
    /\ UNCHANGED arg
    /\ UNCHANGED atVars /\ UNCHANGED teamVars /\ UNCHANGED run

\* getSeasonID(getYear(season_ID))
CallGetSeasonIDOfYear ==
    /\ op = "getYear"
    /\ op' = "getSeasonID(getYear)"
    /\ ret' = getSeasonID(ret)
    /\ UNCHANGED arg
    /\ UNCHANGED atVars /\ UNCHANGED teamVars /\ UNCHANGED run

NextSeason ==
    \/ CallGetSeasonID
    \/ CallGetYear
    \/ CallGetYearOfSeasonID
    \/ CallGetSeasonIDOfYear

SpecSeason == InitSeason /\ [][NextSeason]_vars

\* C14: getSeasonID and getYear undo each other on every integer, the year
\* 1996 is season 0, and the year 2024 is season 28.
C14_SeasonYearInverse ==
    /\ op = "getYear(getSeasonID)" => ret = arg
    /\ op = "getSeasonID(getYear)" => ret = arg
    /\ (op = "getSeasonID" /\ arg = 1996) => ret = 0
    /\ (op = "getSeasonID" /\ arg = END_YEAR) => ret = 28
    /\ (op = "getYear" /\ arg = 0) => ret = 1996
    /\ (op = "getYear" /\ arg = 28) => ret = END_YEAR

\* the last configured year, 2024, went to a season number and came back
C14_Witness ==
    /\ op = "getYear(getSeasonID)"
    /\ arg = END_YEAR
    /\ ret = 2024

(***************************************************************************)
(* The batch drivers: dump_swimmer_all_times, dump_recruiting_data,        *)
(* dump_uf_roster, dump_recruits_2028                                      *)
(*                                                                         *)
(* A run is the state of one call of a driver's main from the start of its *)
(* loop: items is what the loop goes over, i the place of the next item,   *)
(* attempted the items whose fetch was called, all_rows what was collected *)
(* (the item of each non-empty result), printed the items whose failure    *)
(* was printed, written the contents of each write of the result file.     *)
(* A fetch answers with rows, with nothing, or raises.                     *)
(***************************************************************************)
Outcomes == {"rows", "empty", "raise"}

Run(driver, items) ==
    [driver |-> driver, items |-> items, i |-> 1, attempted |-> <<>>,
     all_rows |-> <<>>, printed |-> <<>>, written |-> <<>>, pc |-> "loop"]

\* one pass of a loop whose fetch is inside try/except Exception: continue
PassCaught(r, outcome) ==
    [r EXCEPT !.i = @ + 1,
              !.attempted = Append(@, r.items[r.i]),
              !.printed = IF outcome = "raise" THEN Append(@, r.items[r.i]) ELSE @,
              !.all_rows = IF outcome = "rows" THEN Append(@, r.items[r.i]) ELSE @]

\* one pass of a loop whose fetch is called with no try around it
PassUncaught(r, outcome) ==
    IF outcome = "raise"
    THEN [r EXCEPT !.attempted = Append(@, r.items[r.i]), !.pc = "raised"]
    ELSE [r EXCEPT !.i = @ + 1,
                   !.attempted = Append(@, r.items[r.i]),
                   !.all_rows = IF outcome = "rows" THEN Append(@, r.items[r.i]) ELSE @]

\* the end of main, with a write of what was collected after every pass
WriteAlways(r) == [r EXCEPT !.written = Append(@, r.all_rows), !.pc = "done"]

\* the end of main: nothing collected, no file; otherwise one to_csv
WriteOnce(r) ==
    IF r.all_rows = <<>> THEN [r EXCEPT !.pc = "done"]
    ELSE [r EXCEPT !.written = Append(@, r.all_rows), !.pc = "done"]

InLoop(driver) == run.driver = driver /\ run.pc = "loop" /\ run.i <= Len(run.items)
AtEnd(driver) == run.driver = driver /\ run.pc = "loop" /\ run.i > Len(run.items)

\* dump_swimmer_all_times.main: for sid in swimmer_ids
SwimmerAllTimesPass ==
    /\ InLoop("dump_swimmer_all_times")
    /\ \E outcome \in Outcomes : run' = PassCaught(run, outcome)
    /\ UNCHANGED pureVars /\ UNCHANGED atVars /\ UNCHANGED teamVars

SwimmerAllTimesEnd ==
    /\ AtEnd("dump_swimmer_all_times")
    /\ run' = WriteOnce(run)
    /\ UNCHANGED pureVars /\ UNCHANGED atVars /\ UNCHANGED teamVars

\* dump_recruiting_data.gather_rosters: for cfg in team_config, for year
RecruitingDataPass ==
    /\ InLoop("dump_recruiting_data")
    /\ \E outcome \in Outcomes : run' = PassCaught(run, outcome)
    /\ UNCHANGED pureVars /\ UNCHANGED atVars /\ UNCHANGED teamVars

\* the return of gather_rosters and the rest of dump_recruiting_data.main
RecruitingDataEnd ==
    /\ AtEnd("dump_recruiting_data")
    /\ run' = WriteOnce(run)
    /\ UNCHANGED pureVars /\ UNCHANGED atVars /\ UNCHANGED teamVars

\* dump_uf_roster.main: for gender in GENDERS
UfRosterPass ==
    /\ InLoop("dump_uf_roster")
    /\ \E outcome \in Outcomes : run' = PassUncaught(run, outcome)
    /\ UNCHANGED pureVars /\ UNCHANGED atVars /\ UNCHANGED teamVars

UfRosterEnd ==
    /\ AtEnd("dump_uf_roster")
    /\ run' = WriteOnce(run)
    /\ UNCHANGED pureVars /\ UNCHANGED atVars /\ UNCHANGED teamVars

\* dump_recruits_2028.main: for gender in GENDERS
Recruits2028Pass ==
    /\ InLoop("dump_recruits_2028")
    /\ \E outcome \in Outcomes : run' = PassUncaught(run, outcome)
    /\ UNCHANGED pureVars /\ UNCHANGED atVars /\ UNCHANGED teamVars

Recruits2028End ==
    /\ AtEnd("dump_recruits_2028")
    /\ run' = WriteOnce(run)
    /\ UNCHANGED pureVars /\ UNCHANGED atVars /\ UNCHANGED teamVars

GENDERS == <<"M", "F">>

MaxSwimmers == 3
MaxConfigs == 1

\* lists without repetition (load_swimmer_ids ends with unique())
UniqueSeqs(S, n) ==
    {q \in SeqsUpTo(S, n) : \A a, b \in 1..Len(q) : q[a] = q[b] => a = b}

\* what read_team_config returns: at least one entry, each with a gender
TeamConfigs ==
    SeqsUpTo({<<117, "M">>, <<105, "F">>}, MaxConfigs) \ {<<>>}

\* the (cfg, year) pairs in the order of the two nested loops
RosterItems(team_config) ==
    LET years == END_YEAR - START_YEAR + 1
    IN  [k \in 1..(Len(team_config) * years) |->
            <<team_config[((k - 1) \div years) + 1], START_YEAR + ((k - 1) % years)>>]

InitBatch ==
    /\ run \in {Run("dump_swimmer_all_times", ids) : ids \in UniqueSeqs(1..MaxSwimmers, MaxSwimmers)}
          \cup {Run("dump_recruiting_data", RosterItems(tc)) : tc \in TeamConfigs}
          \cup {Run("dump_uf_roster", GENDERS), Run("dump_recruits_2028", GENDERS)}
    /\ PureIdle
    /\ AllTimesIdle
    /\ TeamsIdle

NextBatch ==
    \/ SwimmerAllTimesPass
    \/ SwimmerAllTimesEnd
    \/ RecruitingDataPass
    \/ RecruitingDataEnd
    \/ UfRosterPass
    \/ UfRosterEnd
    \/ Recruits2028Pass
    \/ Recruits2028End

SpecBatch == InitBatch /\ [][NextBatch]_vars

\* C17: in each of the four drivers a failed fetch is caught and the loop
\* goes on: no run is ended by an exception, and a run that ended has called
\* the fetch of every item, once each and in order.
C17_EveryItemAttempted ==
    /\ run.pc # "raised"
    /\ run.pc = "done" => run.attempted = run.items

\* the same for the two drivers whose fetch is inside a try
C17_OfCatchingDrivers ==
    run.driver \in {"dump_swimmer_all_times", "dump_recruiting_data"} =>
        /\ C17_EveryItemAttempted
        /\ run.pc = "done" =>
              \A k \in 1..Len(run.printed) : \E j \in 1..Len(run.items) :
                  run.printed[k] = run.items[j]

\* C18: the result file is written at most once in a run, only when the
\* fetch of every item has been called, and never with no rows.
C18_OneWriteAtTheEnd ==
    /\ Len(run.written) <= 1
    /\ run.written # <<>> =>
          /\ run.attempted = run.items
          /\ run.pc = "done"
          /\ run.written[1] = run.all_rows
          /\ run.all_rows # <<>>
    /\ (run.pc = "done" /\ run.all_rows = <<>>) => run.written = <<>>

\* a run over three swimmers, the second failing, wrote the rows of the
\* two others in one write
C18_Witness ==
    /\ run.driver = "dump_swimmer_all_times"
    /\ run.pc = "done"
    /\ Len(run.items) = 3
    /\ run.printed = <<run.items[2]>>
    /\ run.written = << <<run.items[1], run.items[3]>> >>

(***************************************************************************)
(* The fetch functions and the responses they receive                      *)
(*                                                                         *)
(* A response is a status and a body.  A body is a JSON object ("json"),   *)
(* or a page without the table looked for ("no table"), or a page whose    *)
(* table has its header row only ("header only"), one data row with the    *)
(* swimmer's link ("rows"), or one data row without it ("unlinked row").   *)
(* The result of a call says how many requests it issued.                  *)
(***************************************************************************)
Response(status, body) == [status |-> status, body |-> body]

Returned(rows, n) == [t |-> "return", s |-> "", rows |-> rows, requested |-> n]
Raised(name, n) == [t |-> "raise", s |-> name, rows |-> <<>>, requested |-> n]

\* r.raise_for_status() raising for the server errors (5xx) only
raise_for_status_server_only(r) == r.status \in 500..599

\* r.raise_for_status() raises (HTTPError): requests does so for 4xx and 5xx
raise_for_status(r) == r.status \in 400..599

\* r.json() raises for a body that is not JSON
json(r) == IF r.body = "json" THEN Returned(<<"json">>, 1) ELSE Raised("JSONDecodeError", 1)

getTeamPerformance(r) == IF raise_for_status(r) THEN Raised("HTTPError", 1) ELSE json(r)

getSwimmerProfileFastestTimes(r) ==
    IF raise_for_status(r) THEN Raised("HTTPError", 1) ELSE json(r)

getSwimmerTimesByEventJSON(r) ==
    IF raise_for_status(r) THEN Raised("HTTPError", 1) ELSE json(r)

\* the status of the response is not looked at: soup.find("table", ...) is
\* None on a page without the table, and .find_all raises AttributeError
getRoster(gender, r) ==
    IF gender \notin {"M", "F"} THEN Returned(<<>>, 0)
    ELSE IF r.body \in {"json", "no table"} THEN Raised("AttributeError", 1)
    ELSE IF r.body = "header only" THEN Returned(<<>>, 1)
    ELSE Returned(<<1>>, 1)

LastPage == 4

\* for page in range(1, 5); a recruit is named by the page it was read from
RECURSIVE RankingPages(_, _, _)
RankingPages(page, responses, recruits) ==
    IF page > LastPage THEN Returned(recruits, LastPage)
    ELSE LET resp == responses[page]
         IN  IF resp.status # 200 THEN Returned(recruits, page)
             ELSE IF resp.body \in {"json", "no table"} THEN Returned(recruits, page)
             ELSE IF resp.body = "header only" THEN Returned(recruits, page)
             ELSE RankingPages(page + 1, responses,
                               IF resp.body = "rows" THEN Append(recruits, page)
                               ELSE recruits)

getHSRecruitRankings(gender, responses) ==
    IF gender \notin {"M", "F"} THEN Returned(<<>>, 0)
    ELSE RankingPages(1, responses, <<>>)

Statuses == {200, 204, 302, 404, 503}
Bodies == {"json", "no table", "header only", "rows"}
FetchGenders == {"M", "F", "X"}

\* what the server may answer to one request, and to the requests for the
\* pages 1..LastPage of the rankings
OneResponse == {<<Response(st, b)>> : st \in Statuses, b \in Bodies}
PageResponses ==
    [1..LastPage -> {Response(st, b) : st \in {200, 302, 404},
                                       b \in {"no table", "header only", "rows", "unlinked row"}}]

InitFetch ==
    /\ arg \in [gender : FetchGenders, responses : OneResponse]
                  \cup [gender : {"M"}, responses : PageResponses]
                  \cup [gender : {"X"}, responses : {[k \in 1..LastPage |-> Response(200, "rows")]}]
    /\ ret = <<>>
    /\ op = "none"
    /\ AllTimesIdle
    /\ TeamsIdle
    /\ RunIdle

CallGetTeamPerformance ==
    /\ op = "none" /\ Len(arg.responses) = 1
    /\ op' = "getTeamPerformance"
    /\ ret' = getTeamPerformance(arg.responses[1])
    /\ UNCHANGED arg
    /\ UNCHANGED atVars /\ UNCHANGED teamVars /\ UNCHANGED run

CallGetSwimmerProfileFastestTimes ==
    /\ op = "none" /\ Len(arg.responses) = 1
    /\ op' = "getSwimmerProfileFastestTimes"
    /\ ret' = getSwimmerProfileFastestTimes(arg.responses[1])
    /\ UNCHANGED arg
    /\ UNCHANGED atVars /\ UNCHANGED teamVars /\ UNCHANGED run

CallGetSwimmerTimesByEventJSON ==
    /\ op = "none" /\ Len(arg.responses) = 1
    /\ op' = "getSwimmerTimesByEventJSON"
    /\ ret' = getSwimmerTimesByEventJSON(arg.responses[1])
    /\ UNCHANGED arg
    /\ UNCHANGED atVars /\ UNCHANGED teamVars /\ UNCHANGED run

CallGetRoster ==
    /\ op = "none" /\ Len(arg.responses) = 1
    /\ op' = "getRoster"
    /\ ret' = getRoster(arg.gender, arg.responses[1])
    /\ UNCHANGED arg
    /\ UNCHANGED atVars /\ UNCHANGED teamVars /\ UNCHANGED run

CallGetHSRecruitRankings ==
    /\ op = "none" /\ Len(arg.responses) = LastPage
    /\ op' = "getHSRecruitRankings"
    /\ ret' = getHSRecruitRankings(arg.gender, arg.responses)
    /\ UNCHANGED arg
    /\ UNCHANGED atVars /\ UNCHANGED teamVars /\ UNCHANGED run

NextFetch ==
    \/ CallGetTeamPerformance
    \/ CallGetSwimmerProfileFastestTimes
    \/ CallGetSwimmerTimesByEventJSON
    \/ CallGetRoster
    \/ CallGetHSRecruitRankings

SpecFetch == InitFetch /\ [][NextFetch]_vars

JsonFetches ==
    {"getTeamPerformance", "getSwimmerProfileFastestTimes", "getSwimmerTimesByEventJSON"}

\* the responses the call received, in order
Received == SubSeq(arg.responses, 1, ret.requested)

upper(cs) == [i \in 1..Len(cs) |-> IF IsLower(cs[i]) THEN Ascii[Ord(cs[i]) - 31 - 32] ELSE cs[i]]

required == {"team_id", "team_name", "gender"}

ConfigFile(kind, columns, rows) == [kind |-> kind, columns |-> columns, rows |-> rows]

ConfigRow(team_id, team_name, gender) ==
    [team_id |-> team_id, team_name |-> team_name, gender |-> gender]

\* the three fields of a row after .strip() and, for gender, .upper()
Normalized(row) ==
    ConfigRow(strip(row.team_id.s), strip(row.team_name.s), upper(strip(row.gender.s)))

\* the negation of the test that makes a row be skipped
Kept(row) ==
    /\ Normalized(row).team_id # <<>>
    /\ Normalized(row).team_name # <<>>
    /\ Normalized(row).gender \in {<<"M">>, <<"F">>}

RECURSIVE KeptRows(_)
KeptRows(rows) ==
    IF rows = <<>> THEN <<>>
    ELSE IF Kept(Head(rows)) THEN <<Normalized(Head(rows))>> \o KeptRows(Tail(rows))
    ELSE KeptRows(Tail(rows))

RECURSIVE SkippedRows(_)
SkippedRows(rows) ==
    IF rows = <<>> THEN <<>>
    ELSE IF Kept(Head(rows)) THEN SkippedRows(Tail(rows))
    ELSE <<Head(rows)>> \o SkippedRows(Tail(rows))

Loaded(kept, warned) == [t |-> "return", s |-> "", teams |-> kept, warned |-> warned]
LoadFailed(name) == [t |-> "raise", s |-> name, teams |-> <<>>, warned |-> <<>>]

\* a cell that is None makes .strip() raise AttributeError
HasNoneCell(row) == \E k \in required : row[k].t = "none"

\* read_team_config that raises on a row it would skip
read_team_config_strict(file) ==
    IF file.kind = "missing" THEN LoadFailed("FileNotFoundError")
    ELSE IF required \ file.columns # {} THEN LoadFailed("ValueError")
    ELSE IF \E i \in 1..Len(file.rows) : HasNoneCell(file.rows[i])
         THEN LoadFailed("AttributeError")
    ELSE IF SkippedRows(file.rows) # <<>> THEN LoadFailed("ValueError")
    ELSE IF KeptRows(file.rows) = <<>> THEN LoadFailed("ValueError")
    ELSE Loaded(KeptRows(file.rows), SkippedRows(file.rows))

read_team_config(file) ==
    IF file.kind = "missing" THEN LoadFailed("FileNotFoundError")
    ELSE IF required \ file.columns # {} THEN LoadFailed("ValueError")
    ELSE IF \E i \in 1..Len(file.rows) : HasNoneCell(file.rows[i])
         THEN LoadFailed("AttributeError")
    ELSE IF KeptRows(file.rows) = <<>> THEN LoadFailed("ValueError")
    ELSE Loaded(KeptRows(file.rows), SkippedRows(file.rows))

MaxConfigRows == 2

ConfigCells ==
    {ConfigRow(i, n, g) :
        i \in {PyStr(<<"1", "1", "7">>), PyStr(<<" ">>)},
        n \in {PyStr(<<"U", "F">>), PyStr(<<>>)},
        g \in {PyStr(<<"M">>), PyStr(<<" ", "f">>), PyStr(<<"X">>), PyNone}}

ColumnSets ==
    {required, required \cup {"notes"}, {"team_id", "team_name"}, {}}

ConfigFiles ==
    {ConfigFile("missing", {}, <<>>)}
        \cup {ConfigFile("table", c, rows) :
                  c \in ColumnSets, rows \in SeqsUpTo(ConfigCells, MaxConfigRows)}

\* main of dump_recruiting_data before its first statement
InitConfig ==
    /\ run \in {[driver |-> "dump_recruiting_data", pc |-> "start", config |-> f,
                 loaded |-> <<>>, teams_csv |-> FALSE, fetches |-> 0,
                 roster_rows |-> 0, rosters_csv |-> FALSE] : f \in ConfigFiles}
    /\ PureIdle
    /\ AllTimesIdle
    /\ TeamsIdle

\* team_config = read_team_config(CONFIG_PATH); write_teams_csv(team_config)
MainReadTeamConfig ==
    /\ run.pc = "start"
    /\ LET got == read_team_config(run.config)
       IN  run' = IF got.t = "raise"
                  THEN [run EXCEPT !.pc = "raised", !.loaded = got]
                  ELSE [run EXCEPT !.pc = "configured", !.loaded = got, !.teams_csv = TRUE]
    /\ UNCHANGED pureVars /\ UNCHANGED atVars /\ UNCHANGED teamVars

\* roster_df = gather_rosters(team_config): one getRoster call for each entry
\* and year; the frame returned has rows or has none
MainGatherRosters ==
    /\ run.pc = "configured"
    /\ \E n \in 0..1 :
          run' = [run EXCEPT !.pc = "gathered",
                             !.fetches = Len(RosterItems(run.loaded.teams)),
                             !.roster_rows = n]
    /\ UNCHANGED pureVars /\ UNCHANGED atVars /\ UNCHANGED teamVars

\* if roster_df.empty: print ... else: roster_df.to_csv(OUTPUT_ROSTERS_CSV)
MainWriteRosters ==
    /\ run.pc = "gathered"
    /\ run' = [run EXCEPT !.pc = "done", !.rosters_csv = (run.roster_rows > 0)]
    /\ UNCHANGED pureVars /\ UNCHANGED atVars /\ UNCHANGED teamVars

NextConfig == MainReadTeamConfig \/ MainGatherRosters \/ MainWriteRosters

SpecConfig == InitConfig /\ [][NextConfig]_vars

\* the ways a config file can be wrong
MissingFile == run.config.kind = "missing"
LacksColumn == run.config.kind = "table" /\ \E c \in required : c \notin run.config.columns
ShortRows == {i \in 1..Len(run.config.rows) : \E k \in required : run.config.rows[i][k] = PyNone}
\* rows that have their three cells and fail the test on them
InvalidRows ==
    {i \in 1..Len(run.config.rows) :
        /\ i \notin ShortRows
        /\ LET r == run.config.rows[i]
           IN  \/ \A k \in 1..Len(r.team_id.s) : r.team_id.s[k] = " "
               \/ \A k \in 1..Len(r.team_name.s) : r.team_name.s[k] = " "
               \/ NoSpaces(r.gender.s) \notin {<<"M">>, <<"F">>, <<"m">>, <<"f">>}}
ValidRows == (1..Len(run.config.rows)) \ (ShortRows \cup InvalidRows)

FailedFast ==
    /\ run.pc = "raised"
    /\ run.fetches = 0

\* C20 as stated: whenever the file is missing, lacks a required column, has
\* an invalid row or has no valid row, read_team_config ends main with a
\* FileNotFoundError or ValueError before any roster fetch.
C20_FailsOnEveryConfigError ==
    (run.pc # "start" /\ (MissingFile \/ LacksColumn \/ InvalidRows # {} \/ ValidRows = {}))
        => (FailedFast /\ run.loaded.s \in {"FileNotFoundError", "ValueError"})

\* C20, amended: a missing file (FileNotFoundError), a file lacking a
\* required column (ValueError) and a file without any valid row (ValueError)
\* end main before any roster fetch; a row with an empty team_id or
\* team_name or a gender other than M/F is not an error: it is skipped with a
\* warning and the valid rows are loaded, in order; a row shorter than the
\* header ends main too, with an AttributeError.
C20_FailsOrSkips ==
    run.pc # "start" =>
        /\ MissingFile => (FailedFast /\ run.loaded.s = "FileNotFoundError")
        /\ LacksColumn => (FailedFast /\ run.loaded.s = "ValueError")
        /\ (~MissingFile /\ ~LacksColumn /\ ShortRows # {})
              => (FailedFast /\ run.loaded.s = "AttributeError")
        /\ (~MissingFile /\ ~LacksColumn /\ ShortRows = {} /\ ValidRows = {})
              => (FailedFast /\ run.loaded.s = "ValueError")
        /\ (~MissingFile /\ ~LacksColumn /\ ShortRows = {} /\ ValidRows # {})
              => /\ run.pc # "raised"
                 /\ Len(run.loaded.teams) = Cardinality(ValidRows)
                 /\ Len(run.loaded.warned) = Cardinality(InvalidRows)
                 /\ \A i \in InvalidRows :
                       \E k \in 1..Len(run.loaded.warned) : run.loaded.warned[k] = run.config.rows[i]
                 /\ \A k \in 1..Len(run.loaded.teams) :
                       /\ run.loaded.teams[k].team_id = <<"1", "1", "7">>
                       /\ run.loaded.teams[k].gender \in {<<"M">>, <<"F">>}
        /\ run.pc = "raised" => (~run.teams_csv /\ ~run.rosters_csv)

\* a file whose first row has gender X and whose second row is valid was
\* loaded, the first row skipped, and rosters were fetched
C20_Witness ==
    /\ run.pc = "gathered"
    /\ Len(run.config.rows) = 2
    /\ run.config.rows[1].gender = PyStr(<<"X">>)
    /\ run.loaded.teams = <<ConfigRow(<<"1", "1", "7">>, <<"U", "F">>, <<"F">>)>>
    /\ run.loaded.warned = <<run.config.rows[1]>>
    /\ run.fetches = 5

(***************************************************************************)
(* The label of the rows of getSwimmerAllTimes                             *)
(***************************************************************************)
\* the number of rows in all_rows before the first row of the fetch i
RECURSIVE RowsBefore(_)
RowsBefore(i) ==
    IF i <= 1 THEN 0
    ELSE RowsBefore(i - 1) + (IF fetches[i - 1].ok THEN Len(fetches[i - 1].json) ELSE 0)

\* the label written from the three raw event fields of a record
LabelOf(rec) ==
    Str(Get(rec, "eventdistance")) \o <<" ">> \o Str(Get(rec, "eventcourse"))
        \o <<" ">> \o NameOfStroke(Get(rec, "eventstroke"))

\* the first record of the fastest-times answer that has the token
RecordOfToken(token) ==
    fastest[CHOOSE j \in 1..Len(fastest) :
                /\ _event_token_from_record(fastest[j]) = token
                /\ \A h \in 1..(j - 1) : _event_token_from_record(fastest[h]) # token]

\* the label a row shows next to its own distance, course and stroke name
OwnLabel(row) ==
    Str(row.eventdistance) \o <<" ">> \o Str(row.eventcourse)
        \o <<" ">> \o row.eventstroke_name

\* C21 as stated: the event_label of every row built from a history record
\* is the label of that record's own raw distance, course and stroke, and so
\* agrees with the row's own eventdistance, eventcourse, eventstroke_name.
C21_LabelOfOwnRecord ==
    \A i \in 1..Len(fetches) : fetches[i].ok =>
        \A k \in 1..Len(fetches[i].json) :
            LET row == all_rows[RowsBefore(i) + k]
            IN  /\ row.event_label = LabelOf(fetches[i].json[k])
                /\ row.event_label = OwnLabel(row)

\* C21, amended: the event_label of every row built from a history record is
\* the label of the fastest-times record whose token was fetched; the row's
\* eventdistance, eventcourse and eventstroke_name are those of the history
\* record; the label agrees with them when the history record has the
\* distance, course and stroke of that fastest-times record.
C21_LabelOfRequestedEvent ==
    \A i \in 1..Len(fetches) : fetches[i].ok =>
        \A k \in 1..Len(fetches[i].json) :
            LET row == all_rows[RowsBefore(i) + k]
                rec == fetches[i].json[k]
                asked == RecordOfToken(fetches[i].token)
            IN  /\ row.event_label = LabelOf(asked)
                /\ row.eventdistance = Get(rec, "eventdistance")
                /\ row.eventcourse = Get(rec, "eventcourse")
                /\ row.eventstroke_name = NameOfStroke(Get(rec, "eventstroke"))
                /\ (/\ Get(rec, "eventdistance") = Get(asked, "eventdistance")
                    /\ Get(rec, "eventcourse") = Get(asked, "eventcourse")
                    /\ Get(rec, "eventstroke") = Get(asked, "eventstroke"))
                      => row.event_label = OwnLabel(row)

\* the fetch for "100 Y Back" was answered with a 50 Y Free swim: the
\* returned frame has a row labelled "100 Y Back" with distance 50, Free
C21_Witness ==
    /\ pc = "done"
    /\ \E n \in 1..Len(df) :
          /\ df[n].event_label = <<"1", "0", "0", " ", "Y", " ", "B", "a", "c", "k">>
          /\ df[n].eventdistance = PyInt(50)
          /\ df[n].eventstroke_name = <<"F", "r", "e", "e">>

(***************************************************************************)
(* getHSRecruitRankings, one page request at a time                        *)
(*                                                                         *)
(* run.responses is what the server would answer for the pages 1..LastPage,*)
(* run.requested the pages requested so far in the order of the requests,  *)
(* run.recruits the list being built, a recruit named by its page.         *)
(***************************************************************************)
\* the three tests of an iteration, without the one on the status
BreaksIgnoringStatus(resp) ==
    \/ resp.body \in {"json", "no table"}
    \/ resp.body = "header only"

\* the three tests that end the loop: status, table_div, len(rows) <= 1
Breaks(resp) ==
    \/ resp.status # 200
    \/ resp.body \in {"json", "no table"}
    \/ resp.body = "header only"

Rankings(gender, responses) ==
    [driver |-> "getHSRecruitRankings", gender |-> gender, responses |-> responses,
     page |-> 0, requested |-> <<>>, recruits |-> <<>>, pc |-> "start"]

InitRankings ==
    /\ run \in {Rankings(g, rs) : g \in {"M", "F"}, rs \in PageResponses}
          \cup {Rankings("X", [k \in 1..LastPage |-> Response(200, "rows")])}
    /\ PureIdle
    /\ AllTimesIdle
    /\ TeamsIdle

\* the statements before the loop: a gender other than M/F returns []
RankingsEnter ==
    /\ run.driver = "getHSRecruitRankings" /\ run.pc = "start"
    /\ run' = IF run.gender \notin {"M", "F"} THEN [run EXCEPT !.pc = "done"]
              ELSE [run EXCEPT !.pc = "loop", !.page = 1]
    /\ UNCHANGED pureVars /\ UNCHANGED atVars /\ UNCHANGED teamVars

\* one iteration of for page in range(1, 5): the request, the three tests,
\* the rows of the page; behind the last page, return recruits
RankingsPage ==
    /\ run.driver = "getHSRecruitRankings" /\ run.pc = "loop"
    /\ LET resp == run.responses[run.page]
           asked == Append(run.requested, run.page)
       IN  run' = IF Breaks(resp)
                  THEN [run EXCEPT !.requested = asked, !.pc = "done"]
                  ELSE [run EXCEPT !.requested = asked,
                                   !.recruits = IF resp.body = "rows"
                                                THEN Append(@, run.page) ELSE @,
                                   !.page = @ + 1,
                                   !.pc = IF run.page + 1 > LastPage THEN "done" ELSE "loop"]
    /\ UNCHANGED pureVars /\ UNCHANGED atVars /\ UNCHANGED teamVars

NextRankings == RankingsEnter \/ RankingsPage

SpecRankings == InitRankings /\ [][NextRankings]_vars

\* the page is one at which the loop is to stop
StopPage(p) ==
    \/ run.responses[p].status # 200
    \/ run.responses[p].body \notin {"rows", "unlinked row"}

\* C22: the pages are requested in the order 1, 2, ... and there are at most
\* 4 requests; no page is requested behind one that answered with a status
\* other than 200, without the table or without a data row; the call returns
\* after such a page or after page 4, with the recruits of the pages before.
C22_PagesInOrderUntilStop ==
    /\ \A k \in 1..Len(run.requested) : run.requested[k] = k
    /\ Len(run.requested) <= 4
    /\ \A k \in 1..(Len(run.requested) - 1) : ~StopPage(k)
    /\ (run.pc = "loop" /\ run.requested # <<>>) => ~StopPage(Len(run.requested))
    /\ run.pc = "done" =>
          /\ \/ run.requested = <<>> /\ run.gender \notin {"M", "F"}
             \/ run.requested # <<>> /\ StopPage(Len(run.requested))
             \/ Len(run.requested) = 4
          /\ \A p \in 1..4 :
                (\E x \in 1..Len(run.recruits) : run.recruits[x] = p)
                    <=> /\ p <= Len(run.requested)
                        /\ ~StopPage(p)
                        /\ run.responses[p].body = "rows"
          /\ \A x, y \in 1..Len(run.recruits) : x < y => run.recruits[x] < run.recruits[y]
          /\ Returned(run.recruits, Len(run.requested))
                = getHSRecruitRankings(run.gender, run.responses)

\* page 1 and page 2 gave a recruit each, page 3 answered 404: three
\* requests, two recruits, page 4 never requested
C22_Witness ==
    /\ run.pc = "done"
    /\ run.responses[1] = Response(200, "rows")
    /\ run.responses[2] = Response(200, "rows")
    /\ run.responses[3].status = 404
    /\ run.responses[4] = Response(200, "rows")
    /\ run.requested = <<1, 2, 3>>
    /\ run.recruits = <<1, 2>>

(***************************************************************************)
(* cleanName on every string                                               *)
(***************************************************************************)
\* C23: cleanName returns a string for every string it is given, the empty
\* one, one of whitespace only and one of commas and spaces only included;
\* it never raises.
C23_CleanNameTotal ==
    op = "cleanName" => ret.t = "str"

\* what holds of the three kinds of name the claim singles out: "" and the
\* names of commas and spaces with at least one comma give "", while a
\* non-empty name of whitespace only raises IndexError
C23_BlankNames ==
    (op = "cleanName" /\ \A i \in 1..Len(arg) : arg[i] \in {",", " "}) =>
        IF arg # <<>> /\ ~Contains(arg, ",")
        THEN ret = Raise("IndexError")
        ELSE ret = PyStr(<<>>)

====
